---- MODULE Spec2Model ----
(***************************************************************************)
(* Clock/TEC separation of losoto (operations/fitClockTEC.py).             *)
(*                                                                         *)
(* Spec       : the time loop of getClockTECFit, one action per phase of a *)
(*              timestep (copy of the data, lattice initialisation, least  *)
(*              squares fit, chi-square selection and carry-over).         *)
(* SpecUnwrap : unwrapPhases applied to a sequence of phases, and applied  *)
(*              again to what it returned.                                 *)
(* SpecDoFit  : doFit, from the removal of the fully flagged stations to   *)
(*              their reinsertion in the returned arrays.                  *)
(* SpecInitPar: getInitPar on the data of one station, and the fit of that *)
(*              station that follows it at the first timestep.  The data   *)
(*              are held in the array variables of unwrapPhases.           *)
(* SpecBandpass: run of operations/prefactor_bandpass.py, with the workers *)
(*              that flag the amplitudes of one station each.              *)
(* SpecWindows: the lattice windows of one station with carry-over, from   *)
(*              one initialisation to the next.                            *)
(* SpecWraps  : correctWraps, the rounds of its refinement loop on a TEC   *)
(*              array of four stations.                                    *)
(* SpecParser : the parser entry points of operations/reweight.py and      *)
(*              operations/prefactor_bandpass.py and the call of run they  *)
(*              make.                                                      *)
(* Each specification leaves the variables of the others at rest.          *)
(*                                                                         *)
(* Numbers.  Parameters (TEC, clock) are reals in the program.  Here they  *)
(* are integers that count 1/Scale of a unit, Scale = 2^nT, so that the    *)
(* halving of the carry-over (0.5*prevsol + 0.5*sol) is exact over a whole *)
(* run of nT timesteps.  Every comparison of the program is cross          *)
(* multiplied into integers.  The phase data themselves are inputs: what   *)
(* the program computes from them alone (number of valid channels, result  *)
(* of the lattice search, result of the least squares solve, chi-square)   *)
(* is drawn from small sets of values.  Locals of one timestep (datatmp)   *)
(* are cleared when the timestep ends.                                     *)
(***************************************************************************)
EXTENDS Integers, Sequences, FiniteSets, TLC

\* ------------------------------------------------------------------ bounds
\* number of timesteps of the run (ph.shape[0])
nT == 5
\* number of frequency channels (freq.shape[0])
nF == 4

\* ------------------------------------------------------ program constants
\* chi-square cutoff handed to getClockTECFit by doFit
chi2cut == 30000
\* a fitted TEC below this marks a failed sample
TECSENTINEL == -5
\* value every parameter of a station without enough channels is set to
FAILVALUE == -10
\* number of fitted parameters, sol.shape[1] with fit3rdorder=False
npar == 2

\* values are counted in 1/Scale of a unit
Scale == 2 ^ nT

\* ----------------------------------------------------------------- inputs
\* the station list: the substring tests of the program on the station name
stations ==
  << [name |-> "CS001HBA0", CS |-> TRUE,  RS |-> FALSE, LBA |-> FALSE],
     [name |-> "RS106HBA",  CS |-> FALSE, RS |-> TRUE,  LBA |-> FALSE] >>
nSt == Len(stations)
Stations == 0 .. (nSt - 1)
St(ist) == stations[ist + 1]

\* lattice step of each parameter (TEC step negative, clock step positive,
\* as the pseudo-inverse of the design matrix gives for any frequency grid)
steps == << (-2) * Scale, 4 * Scale >>

\* an externally supplied initial solution: none, or one per station
InitSols == { << >>, << <<0, 0>>, <<Scale, Scale>> >> }

\* results of the brute force lattice search (getInitPar), per station
ParVals(ist) == IF ist = 0 THEN { <<0, 0>> }
                ELSE { <<0, 0>>, <<2 * Scale, Scale>> }

\* results of the least squares solve, per station
FitVals(ist) ==
  IF ist = 0 THEN { <<0, 0>> }
  ELSE { <<0, 0>>, <<0, Scale>>, <<Scale, Scale>>, <<0, 3 * Scale>>,
         <<(-2) * Scale, 5 * Scale>>, <<(-6) * Scale, 0>> }

\* chi-square of a station: station 0 is the reference of the residuals,
\* its own double-differenced residual is identically zero
Chi2Vals(ist) == IF ist = 0 THEN { 0 } ELSE { chi2cut, chi2cut + 1 }

\* number of valid channels of a station at a timestep: none or all for the
\* reference station; fewer than half, half (nF even) or all for the others
Counts(ist) == IF ist = 0 THEN { 0, nF }
               ELSE { (nF - 1) \div 2, nF \div 2, nF }

\* ---------------------------------------------------------------- helpers
Abs(x) == IF x < 0 THEN -x ELSE x
Min(a, b) == IF a < b THEN a ELSE b

\* numpy.round(n/d): to the nearest integer, ties to the even one
RoundDiv(n, d) ==
  LET nn == IF d < 0 THEN -n ELSE n
      dd == Abs(d)
      q  == nn \div dd
      r  == nn - q * dd
  IN  IF 2 * r < dd THEN q
      ELSE IF 2 * r > dd THEN q + 1
      ELSE IF q % 2 = 0 THEN q ELSE q + 1

VARIABLES
  pc,          \* position in the body of the time loop
  itm,         \* index of the current timestep
  succes,      \* global success flag of the previous timestep
  initprevsol, \* per station: a carry-over solution exists
  nrFail,      \* per station: failure counter
  sol,         \* per station: current solution <<TEC, clock>>
  prevsol,     \* per station: carry-over solution
  initSol,     \* the initSol argument
  count,       \* per station: valid channels of datatmp[:, ist]
  ndtec,       \* per station: value of ndtec at line 261 of the last timestep,
               \* 0 when lines 221-271 did not run at that timestep
  ndt,         \* per station: value of ndt, likewise
  searched,    \* per station: getInitPar was called at this timestep
  fitted,      \* per station: the least squares solve ran at this timestep
  chi2,        \* per station: chi-square of this timestep
  chi2select,  \* per station: rejected at this timestep
  tecarray,    \* output TEC: the row written last, tecarray[itm-1]
  clockarray   \* output clock: the row written last, clockarray[itm-1]

loopVars == << pc, itm, succes, initprevsol, nrFail, sol, prevsol, initSol,
               count, ndtec, ndt, searched, fitted, chi2, chi2select, tecarray,
               clockarray >>

VARIABLES
  phases,      \* unwrapPhases: the data of the masked array, per sample
  mymask,      \* unwrapPhases: the mask of the masked array, per sample
  fitdata,     \* unwrapPhases: the fitdata argument, None or one value per sample
  maskrange,   \* unwrapPhases: the maskrange argument
  calls,       \* number of applications of unwrapPhases done
  returned,    \* what the application before the last one returned
  nriter       \* passes of the loop of line 72 the last application made

unwrapVars == << phases, mymask, fitdata, maskrange, calls, returned, nriter >>

VARIABLES
  dfpc,             \* doFit: position in the function
  stations_old,     \* doFit: the stations argument, as handed in
  allmasked,        \* doFit: per station, every sample of it is masked
  removePhaseWraps, \* doFit: argument
  combine_pol,      \* doFit: argument
  circular,         \* doFit: argument
  initSolGiven,     \* doFit: len(initSol) >= 1
  fitres,           \* per station: what the fit engine finds in its data
  npol,             \* doFit: number of polarizations
  stationIndices,   \* doFit: per station, it is kept
  engine,           \* stations whose data were handed to getClockTECFit
  initclock,        \* doFit: coarse clock per kept station, None when skipped
  offset,           \* doFit: offset[ant][pol]
  clock,            \* doFit: clock[ant][pol] (one timestep)
  tec,              \* doFit: tec[ant][pol] (one timestep)
  pol,              \* doFit: index of the polarization loop
  idx,              \* doFit: index of the reinsertion loop
  fitcalls,         \* per polarization done: the calls of lines 543-608, in order
  chi2cut_arg,      \* doFit: the chi2cut argument
  removed           \* doFit: per kept station, the clock line 522 took out of data

doFitVars == << dfpc, stations_old, allmasked, removePhaseWraps, combine_pol,
                circular, initSolGiven, fitres, npol, stationIndices, engine,
                initclock, offset, clock, tec, pol, idx, fitcalls,
                chi2cut_arg,
                removed >>

VARIABLES
  ippc,        \* getInitPar: position in the function
  nrTEC,       \* getInitPar: argument, later enlarged by line 155
  nrClock,     \* getInitPar: argument, later enlarged by line 156
  initsol,     \* getInitPar: argument
  grid,        \* getInitPar: the offsets of the index grid a of line 144
  guess,       \* getInitPar: par of line 161, the centre of the lattice
  selected,    \* getInitPar: par of line 168, the lattice point selected
  truth,       \* the parameters the data were generated from, if they were
  fitsol,      \* sol[ist] of the fit that follows getInitPar (lines 274-287)
  ph_itm       \* data and mask of the row ph[itm, :, ist] of the caller

initParVars == << ippc, nrTEC, nrClock, initsol, grid, guess, selected, truth,
                  fitsol, ph_itm >>

VARIABLES
  bppc,              \* prefactor_bandpass.run: position in the function
  solType,           \* soltab.getType()
  autoflag,          \* argument of run
  freqs_median,      \* np.median(soltab.freq), in MHz
  len_freqs_new,     \* len(freqs_new) of line 400
  bad_sblist,        \* the subbands of BadSBList
  amplitude_is_one,  \* where soltab.val is 1.0
  soltab_weight,     \* the weights stored in the solution table
  weights_arraytmp,  \* the array run read them into (line 371)
  pending,           \* stations put to the workers, not yet worked on
  exited,            \* stations whose worker ended in sys.exit
  outQueue,          \* results the workers put
  bandpass,          \* weights of the soltab 'bandpass', << >> if there is none
  bpresult           \* what run returned or raised

bandpassVars == << bppc, solType, autoflag, freqs_median, len_freqs_new,
                   bad_sblist, amplitude_is_one, soltab_weight,
                   weights_arraytmp, pending, exited, outQueue, bandpass,
                   bpresult >>

VARIABLES
  st_name,         \* one station of getClockTECFit: its entry in stations
  st_fit3rdorder,  \* the fit3rdorder argument
  st_nrFail,       \* nrFail[ist] of the station
  st_windows       \* ndtec, ndt, n3rd of its last initialisation with
                   \* carry-over, << >> before the first one

windowVars == << st_name, st_fit3rdorder, st_nrFail, st_windows >>

VARIABLES
  cwpc,          \* correctWraps: "off", "refine", "returned", "nooffset"
  cw_tec,        \* tecarray, per timestep and station
  cw_wraps,      \* wraps, per station
  cw_offsets,    \* offsets / (2 pi) per station, a fraction << num, den >>
  cw_remaining,  \* remainingwraps, per station
  cw_select,     \* chi2select of the last round, the set of its timesteps
  nr_iter        \* rounds of the loop of line 398 done

wrapVars == << cwpc, cw_tec, cw_wraps, cw_offsets, cw_remaining, cw_select,
               nr_iter >>

VARIABLES
  pspc,      \* parser entry points: "off", "parse", "run"
  operation, \* the operation whose parser is called
  options,   \* what the parser read from the parset, by option name
  received   \* the parameters of run as the call of the parser binds them

parserVars == << pspc, operation, options, received >>

vars == << loopVars, unwrapVars, doFitVars, initParVars, bandpassVars,
           windowVars, wrapVars, parserVars >>

ZeroSol == [ist \in Stations |-> <<0, 0>>]
\* a row of np.zeros((nT, nSt)); each row of the output arrays is written
\* once, at its own timestep, and never read again by the loop
ZeroArr == [ist \in Stations |-> 0]
NoneSt  == [ist \in Stations |-> FALSE]

\* unwrapPhases is not running
UnwrapIdle ==
  /\ phases = << >>
  /\ mymask = << >>
  /\ fitdata = "None"
  /\ maskrange = 0
  /\ calls = 0
  /\ returned = << >>
  /\ nriter = 0

\* no station is followed through its initialisations
WindowIdle ==
  /\ st_name = << >>
  /\ st_fit3rdorder = FALSE
  /\ st_nrFail = 0
  /\ st_windows = << >>

\* correctWraps is not running
WrapsIdle ==
  /\ cwpc = "off"
  /\ cw_tec = << >>
  /\ cw_wraps = << >>
  /\ cw_offsets = << >>
  /\ cw_remaining = << >>
  /\ cw_select = {}
  /\ nr_iter = 0

\* no parser entry point is running
ParserIdle ==
  /\ pspc = "off"
  /\ operation = ""
  /\ options = << >>
  /\ received = << >>

\* prefactor_bandpass.run is not running
BandpassIdle ==
  /\ bppc = "off"
  /\ solType = ""
  /\ autoflag = FALSE
  /\ freqs_median = 0
  /\ len_freqs_new = 0
  /\ bad_sblist = {}
  /\ amplitude_is_one = << >>
  /\ soltab_weight = << >>
  /\ weights_arraytmp = << >>
  /\ pending = {}
  /\ exited = {}
  /\ outQueue = << >>
  /\ bandpass = << >>
  /\ bpresult = "none"

\* getInitPar is not running
InitParIdle ==
  /\ ippc = "off"
  /\ nrTEC = 0
  /\ nrClock = 0
  /\ initsol = << >>
  /\ grid = << >>
  /\ guess = << >>
  /\ selected = << >>
  /\ truth = << >>
  /\ fitsol = << >>
  /\ ph_itm = << >>

\* doFit is not running
DoFitIdle ==
  /\ dfpc = "off"
  /\ stations_old = << >>
  /\ allmasked = << >>
  /\ removePhaseWraps = FALSE
  /\ combine_pol = FALSE
  /\ circular = FALSE
  /\ initSolGiven = FALSE
  /\ fitres = << >>
  /\ npol = 0
  /\ stationIndices = << >>
  /\ engine = {}
  /\ initclock = << >>
  /\ offset = << >>
  /\ clock = << >>
  /\ tec = << >>
  /\ pol = 0
  /\ idx = 0
  /\ fitcalls = << >>
  /\ chi2cut_arg = 0
  /\ removed = << >>

\* state after lines 195-217
Init ==
  /\ UnwrapIdle
  /\ DoFitIdle
  /\ InitParIdle
  /\ BandpassIdle
  /\ WindowIdle
  /\ WrapsIdle
  /\ ParserIdle
  /\ pc = "copy"
  /\ itm = 0
  /\ succes = FALSE
  /\ initprevsol = NoneSt
  /\ nrFail = [ist \in Stations |-> 0]
  /\ sol = ZeroSol
  /\ prevsol = ZeroSol
  /\ initSol \in InitSols
  /\ count = [ist \in Stations |-> 0]
  /\ ndtec = [ist \in Stations |-> 0]
  /\ ndt = [ist \in Stations |-> 0]
  /\ searched = NoneSt
  /\ fitted = NoneSt
  /\ chi2 = [ist \in Stations |-> 0]
  /\ chi2select = NoneSt
  /\ tecarray = ZeroArr
  /\ clockarray = ZeroArr

\* mutant: the lattice initialisation runs at every timestep
NeedsInit_Always == TRUE

\* line 220: the lattice initialisation runs at this timestep
NeedsInit == itm = 0 \/ ~succes

\* datatmp = np.ma.copy(data[itm, :]), line 219, and the test of line 220
CopyData ==
  /\ UNCHANGED << unwrapVars, doFitVars, initParVars, bandpassVars, windowVars, wrapVars, parserVars >>
  /\ pc = "copy"
  /\ itm < nT
  /\ \E c \in [Stations -> 0 .. nF] :
       /\ \A ist \in Stations : c[ist] \in Counts(ist)
       /\ count' = c
  /\ pc' = IF NeedsInit THEN "init" ELSE "fit"
  /\ ndtec' = IF NeedsInit THEN ndtec ELSE [ist \in Stations |-> 0]
  /\ ndt' = IF NeedsInit THEN ndt ELSE [ist \in Stations |-> 0]
  /\ UNCHANGED << itm, succes, initprevsol, nrFail, sol, prevsol, initSol,
                  searched, fitted, chi2, chi2select, tecarray, clockarray >>

\* the station takes the first branch of line 222
FreshInit(ist) == itm = 0 \/ ~initprevsol[ist]
HasInitSol(ist) == Len(initSol) > ist

\* mutant: the window of a station with carry-over starts one step too wide
WindowTEC_OffByOne(ist) ==
  IF itm = 0 \/ ~initprevsol[ist]
  THEN IF Len(initSol) > ist THEN 1
       ELSE IF St(ist).CS THEN (IF St(ist).LBA THEN 40 ELSE 10)
       ELSE IF St(ist).LBA THEN 320
       ELSE IF St(ist).RS THEN 80 ELSE 160
  ELSE Min(nrFail[ist] + 2, 100)

\* windows of lines 223-260
WindowTEC(ist) ==
  IF FreshInit(ist)
  THEN IF HasInitSol(ist) THEN 1
       ELSE IF St(ist).CS THEN (IF St(ist).LBA THEN 40 ELSE 10)
       ELSE IF St(ist).LBA THEN 320
       ELSE IF St(ist).RS THEN 80 ELSE 160
  ELSE Min(nrFail[ist] + 1, 100)

WindowClock(ist) ==
  IF FreshInit(ist)
  THEN IF HasInitSol(ist) THEN 1
       ELSE IF St(ist).CS THEN (IF St(ist).LBA THEN 2 ELSE 4)
       ELSE IF St(ist).LBA THEN 60 ELSE 200
  ELSE IF ~St(ist).CS THEN Min(nrFail[ist] + 1, 200)
       ELSE Min(nrFail[ist] + 1, 4)

\* the seed of the station before the lattice search, lines 224 and 253
Seed(ist) ==
  IF FreshInit(ist)
  THEN IF HasInitSol(ist) THEN initSol[ist + 1] ELSE sol[ist]
  ELSE prevsol[ist]

\* mutant: only a station without carry-over is searched
DoSearch_OnlyFresh(ist) ==
  2 * count[ist] > nF /\ (itm = 0 \/ ~initprevsol[ist])

\* line 262: more than half of the channels are valid
DoSearch(ist) == 2 * count[ist] > nF

\* valid channels left after getInitPar: unwrapPhases may flag more samples
\* (none, or enough of them to leave half or fewer than half of the channels)
AfterSearch(c) == { d \in { c, nF \div 2, (nF - 1) \div 2 } : d <= c }

\* lines 220-271
InitPar ==
  /\ UNCHANGED << unwrapVars, doFitVars, initParVars, bandpassVars, windowVars, wrapVars, parserVars >>
  /\ pc = "init"
  /\ ndtec' = [ist \in Stations |-> WindowTEC(ist)]
  /\ ndt' = [ist \in Stations |-> WindowClock(ist)]
  /\ searched' = [ist \in Stations |-> DoSearch(ist)]
  /\ \E par \in [Stations -> UNION { ParVals(i) : i \in Stations }] :
       /\ \A ist \in Stations : par[ist] \in ParVals(ist)
       /\ sol' = [ist \in Stations |->
                    IF DoSearch(ist) THEN par[ist] ELSE Seed(ist)]
  /\ \E c \in [Stations -> 0 .. nF] :
       /\ \A ist \in Stations :
            IF DoSearch(ist) THEN c[ist] \in AfterSearch(count[ist])
            ELSE c[ist] = count[ist]
       /\ count' = c
  /\ pc' = "fit"
  /\ UNCHANGED << itm, succes, initprevsol, nrFail, prevsol, initSol, fitted,
                  chi2, chi2select, tecarray, clockarray >>

\* mutant: only a station without any valid channel is skipped
TooFewChannels_OnlyEmpty(ist) == count[ist] = 0

\* line 275: fewer than half of the channels are valid
TooFewChannels(ist) == 2 * count[ist] < nF

\* the test of line 288 on a least squares result s
NeedsJumpFix(ist, s) ==
  LET d0 == s[1] - prevsol[ist][1]
      d1 == s[2] - prevsol[ist][2]
  IN  /\ initprevsol[ist]
      /\ 2 * Abs(d1) > Abs(steps[2])
      /\ \/ 4 * Abs(d1) > 3 * Abs(steps[2])
         \/ 2 * Abs(d0 * steps[2] + d1 * steps[1])
              > nF * Abs(steps[1] * steps[2])

\* line 290
JumpFix(ist, s) ==
  LET k == RoundDiv(s[2] - prevsol[ist][2], steps[2])
  IN  << s[1] - k * steps[1], s[2] - k * steps[2] >>

\* mutant: a station without enough channels keeps its parameters
FitStation_NoSentinel(ist, s) ==
  IF TooFewChannels(ist) THEN sol[ist]
  ELSE IF NeedsJumpFix(ist, s) THEN JumpFix(ist, s)
  ELSE s

\* lines 274-290 for one station, s the result of the solve of line 287
FitStation(ist, s) ==
  IF TooFewChannels(ist) THEN << FAILVALUE * Scale, FAILVALUE * Scale >>
  ELSE IF NeedsJumpFix(ist, s) THEN JumpFix(ist, s)
  ELSE s

\* lines 272-294
Fit ==
  /\ UNCHANGED << unwrapVars, doFitVars, initParVars, bandpassVars, windowVars, wrapVars, parserVars >>
  /\ pc = "fit"
  /\ fitted' = [ist \in Stations |-> ~TooFewChannels(ist)]
  /\ \E s \in [Stations -> UNION { FitVals(i) : i \in Stations }] :
       /\ \A ist \in Stations : s[ist] \in FitVals(ist)
       /\ \A ist \in Stations : TooFewChannels(ist) => s[ist] = <<0, 0>>
       /\ sol' = [ist \in Stations |-> FitStation(ist, s[ist])]
  /\ pc' = "select"
  /\ UNCHANGED << itm, succes, initprevsol, nrFail, prevsol, initSol, count,
                  ndtec, ndt, searched, chi2, chi2select, tecarray,
                  clockarray >>

\* mutant: the displacement threshold does not relax with the failures
Displaced_FixedThreshold(ist) ==
  LET d0 == Abs(sol[ist][1] - prevsol[ist][1])
      d1 == Abs(sol[ist][2] - prevsol[ist][2])
  IN  10 * (d0 * Abs(steps[2]) + d1 * Abs(steps[1]))
        > 3 * npar * Abs(steps[1]) * Abs(steps[2])

\* the displacement test of line 305, before the multiplication by
\* initprevsol: sum(|sol-prevsol|/steps) > 0.3*npar*(1+nrFail)
Displaced(ist) ==
  LET d0 == Abs(sol[ist][1] - prevsol[ist][1])
      d1 == Abs(sol[ist][2] - prevsol[ist][2])
  IN  10 * (d0 * Abs(steps[2]) + d1 * Abs(steps[1]))
        > 3 * npar * (1 + nrFail[ist]) * Abs(steps[1]) * Abs(steps[2])

\* lines 304-305 for one station, x its chi-square
Chi2Select(ist, x) ==
  \/ x > chi2cut
  \/ sol[ist][1] < TECSENTINEL * Scale
  \/ (initprevsol[ist] /\ Displaced(ist))

\* mutant: the carry-over is the last solution (prevsol = np.copy(sol))
Half_NoSmoothing(a, b) == b

\* 0.5*a + 0.5*b on a pair
Half(a, b) == << (a[1] + b[1]) \div 2, (a[2] + b[2]) \div 2 >>

\* mutant: a rejected station loses its carry-over
CarryOverSomeFailed_FlagFollows(sel) ==
  /\ succes' = FALSE
  /\ nrFail' = [ist \in Stations |-> IF sel[ist] THEN nrFail[ist] + 1 ELSE 0]
  /\ prevsol' = [ist \in Stations |->
                   IF sel[ist] THEN prevsol[ist]
                   ELSE IF ~initprevsol[ist] THEN Half(sol[ist], sol[ist])
                   ELSE Half(prevsol[ist], sol[ist])]
  /\ initprevsol' = [ist \in Stations |-> ~sel[ist]]

\* lines 310-314: some station is rejected
CarryOverSomeFailed(sel) ==
  /\ succes' = FALSE
  /\ nrFail' = [ist \in Stations |-> IF sel[ist] THEN nrFail[ist] + 1 ELSE 0]
  /\ prevsol' = [ist \in Stations |->
                   IF sel[ist] THEN prevsol[ist]
                   ELSE IF ~initprevsol[ist] THEN Half(sol[ist], sol[ist])
                   ELSE Half(prevsol[ist], sol[ist])]
  /\ initprevsol' = [ist \in Stations |-> initprevsol[ist] \/ ~sel[ist]]

\* lines 316-321: every station is accepted
CarryOverAllGood ==
  /\ succes' = TRUE
  /\ nrFail' = [ist \in Stations |-> 0]
  /\ prevsol' = [ist \in Stations |->
                   IF ~initprevsol[ist] THEN Half(sol[ist], sol[ist])
                   ELSE Half(prevsol[ist], sol[ist])]
  /\ initprevsol' = [ist \in Stations |-> TRUE]

\* lines 296-325
Select ==
  /\ UNCHANGED << unwrapVars, doFitVars, initParVars, bandpassVars, windowVars, wrapVars, parserVars >>
  /\ pc = "select"
  /\ \E x \in [Stations -> UNION { Chi2Vals(i) : i \in Stations }] :
       /\ \A ist \in Stations : x[ist] \in Chi2Vals(ist)
       /\ chi2' = x
       /\ LET sel == [ist \in Stations |-> Chi2Select(ist, x[ist])]
          IN  /\ chi2select' = sel
              /\ IF \E ist \in Stations : sel[ist]
                 THEN CarryOverSomeFailed(sel)
                 ELSE CarryOverAllGood
  /\ tecarray' = [ist \in Stations |-> sol[ist][1]]
  /\ clockarray' = [ist \in Stations |-> sol[ist][2]]
  /\ itm' = itm + 1
  /\ pc' = IF itm + 1 < nT THEN "copy" ELSE "done"
  /\ count' = [ist \in Stations |-> 0]
  /\ searched' = NoneSt
  /\ fitted' = NoneSt
  /\ UNCHANGED << sol, initSol, ndtec, ndt >>

Next == CopyData \/ InitPar \/ Fit \/ Select

Spec == Init /\ [][Next]_vars

\* ============================================================ unwrapPhases
\* length of the sequence handed to unwrapPhases (phases.shape[0])
nSamples == 5

\* Phases count 1/21 of a turn: 2*pi is 21 units.  With whole numbers of such
\* units no difference of two samples is exactly pi, 0.4*pi or 1.25*pi, so
\* that no comparison and no rounding of a difference sits on a tie.
TwoPi == 21

Samples == 0 .. (nSamples - 1)
\* values of the samples handed in
PhaseVals == { 0, 8, -8 }
\* fitdata: None (the empty tuple), or a model with a slope
FitDatas == { << >>, [i \in 1 .. nSamples |-> 3 * i] }
\* masks handed in: no, one or two masked samples
Masks == { mk \in [Samples -> BOOLEAN] :
             Cardinality({ i \in Samples : mk[i] }) \in { 0, 1, 2 } }
\* maskrange: the default 15 (longer than the sequence), and 2, the smallest
\* window a straight line can be fitted to (shorter than the sequence, as
\* the default is for the channel axes of real data)
MaskRanges == { 2, 15 }

\* an array of numbers or flags: the function i |-> f[i] held as a table of
\* its values, as np.copy and np.array make one
Array(f) == f @@ << >>

\* ph_correct of numpy.unwrap for a difference dd of two neighbours
PhCorrect(dd) ==
  LET ddmod2 == ((2 * dd + TwoPi) % (2 * TwoPi)) - TwoPi
      fixed2 == IF ddmod2 = -TwoPi /\ dd > 0 THEN TwoPi ELSE ddmod2
  IN  IF 2 * Abs(dd) < TwoPi THEN 0 ELSE (fixed2 - 2 * dd) \div 2

RECURSIVE CumCorrect(_, _)
CumCorrect(p, i) ==
  IF i = 0 THEN 0 ELSE CumCorrect(p, i - 1) + PhCorrect(p[i] - p[i - 1])

\* np.unwrap(unmasked), line 80
NpUnwrap(p) == Array([i \in Samples |-> p[i] + CumCorrect(p, i)])

\* phases -= np.ma.round((phases-target)/(2*np.pi))*2*np.pi, lines 74-75 and
\* 81-82: an in-place operation of a masked array leaves masked data alone
WrapTo(ph, mk, target) ==
  Array([i \in Samples |->
           IF mk[i] THEN ph[i]
           ELSE ph[i] - RoundDiv(ph[i] - target[i], TwoPi) * TwoPi])

RECURSIVE SumTo(_, _)
SumTo(f, k) == IF k < 0 THEN 0 ELSE f[k] + SumTo(f, k - 1)

\* lines 85-87, 95 and 101: the straight line fitted to the m values
\* u[first], ..., u[first+m-1] at the abscissae 0..m-1, evaluated at x
PolyFit(u, first, m, x) ==
  LET J   == 0 .. (m - 1)
      sx  == SumTo([j \in J |-> j], m - 1)
      sxx == SumTo([j \in J |-> j * j], m - 1)
      sy  == SumTo([j \in J |-> u[first + j]], m - 1)
      sxy == SumTo([j \in J |-> j * u[first + j]], m - 1)
      det == m * sxx - sx * sx
  IN  ((sxx * sy - sx * sxy) + x * (m * sxy - sx * sy)) \div det

\* lines 89-95: the masked samples are replaced, in ascending order
RECURSIVE Forward(_, _, _, _)
Forward(u, mk, m, i) ==
  IF i > nSamples - 1 THEN u
  ELSE LET v == IF ~mk[i] THEN u
                ELSE IF i < m /\ i > 0 THEN [u EXCEPT ![i] = u[i - 1]]
                ELSE IF i >= m THEN [u EXCEPT ![i] = PolyFit(u, i - m, m, m)]
                ELSE u
       IN  Forward(v, mk, m, i + 1)

\* line 92: a masked sample was replaced by a copy of its neighbour
DoReverse(mk, m) == \E i \in Samples : mk[i] /\ i < m /\ i > 0

\* lines 97-101: the masked samples are replaced, in descending order
RECURSIVE Reverse(_, _, _, _)
Reverse(u, mk, m, i) ==
  IF i < 0 THEN u
  ELSE LET v == IF mk[i] /\ i < nSamples - 1 - m
                THEN [u EXCEPT ![i] = PolyFit(u, i + 1, m, -1)]
                ELSE u
       IN  Reverse(v, mk, m, i - 1)

\* lines 83-101
Repair(u, mk, m) ==
  LET f == Forward(u, mk, m, 0)
  IN  IF DoReverse(mk, m) THEN Reverse(f, mk, m, nSamples - 1) ELSE f

\* line 104: diffdata[k] = unmasked[k+1] - unmasked[k]
Diff(u, k) == u[k + 1] - u[k]

\* line 106: both differences next to sample k+1 exceed 0.4*pi
WrapFlag(u, k) ==
  /\ 5 * Abs(Diff(u, k)) > TwoPi
  /\ 5 * Abs(Diff(u, k + 1)) > TwoPi

\* lines 107-108: newmask[:-1] = wrapflags, the last difference is kept
NewMask(u, k) == k <= nSamples - 3 /\ WrapFlag(u, k)

\* line 111: np.ma.cumsum(np.ma.round(diffdata/(2.5*np.pi))), a masked
\* difference adds nothing to the sum
RECURSIVE Jumps(_, _)
Jumps(u, k) ==
  IF k < 0 THEN 0
  ELSE Jumps(u, k - 1)
       + (IF NewMask(u, k) THEN 0 ELSE RoundDiv(4 * Diff(u, k), 5 * TwoPi))

\* line 111: phases[1:] -= ...*2*np.pi, in place on the masked array
RemoveJumps(ph, mk, u) ==
  Array([i \in Samples |->
           IF i = 0 \/ mk[i] \/ NewMask(u, i - 1) THEN ph[i]
           ELSE ph[i] - Jumps(u, i - 1) * TwoPi])

\* lines 113-114: mymask[1:-1] = mymask[1:-1] | wrapflags
FlagMask(mk, u) ==
  Array([i \in Samples |->
           mk[i] \/ (i >= 1 /\ i <= nSamples - 2 /\ WrapFlag(u, i - 1))])

\* lines 116-121: the valid samples are moved by whole turns until their
\* average (relative to fitdata) is the nearest to zero
Recentre(ph, mk, fit) ==
  LET rel == Array([i \in Samples |-> IF mk[i] THEN 0 ELSE ph[i] - fit[i]])
      cnt == Cardinality({ i \in Samples : ~mk[i] })
      k   == IF cnt = 0 THEN 0
             ELSE RoundDiv(SumTo(rel, nSamples - 1), cnt * TwoPi)
  IN  Array([i \in Samples |-> IF mk[i] THEN ph[i] ELSE ph[i] - k * TwoPi])

\* one pass of the loop of line 72
Pass(ph, mk, fd, m) ==
  LET given   == Len(fd) = nSamples
      fit     == Array([i \in Samples |-> IF given THEN fd[i + 1] ELSE 0])
      raw     == IF given THEN WrapTo(ph, mk, fit) ELSE NpUnwrap(ph)
      wrapped == IF given THEN raw ELSE WrapTo(ph, mk, raw)
      u       == Repair(raw, mk, m)
      flagged == \E k \in 0 .. (nSamples - 3) : WrapFlag(u, k)
      newmk   == FlagMask(mk, u)
  IN  [ phases  |-> Recentre(RemoveJumps(wrapped, mk, u), newmk, fit),
        mask    |-> newmk,
        flagged |-> flagged ]

\* a pass and the number of passes made up to it
Counted(pass, n) == [passes |-> n] @@ pass

\* mutant: the second pass is made whatever the first one flagged
unwrapPhases_TwoPasses(ph, mk, fd, m) ==
  CHOOSE r \in { Counted(Pass(first.phases, first.mask, fd, m), 2) :
                   first \in { Pass(ph, mk, fd, m) } } : TRUE

\* lines 69-124: at most two passes, the second one only when the first one
\* flagged a sample
unwrapPhases(ph, mk, fd, m) ==
  CHOOSE r \in { IF ~first.flagged THEN Counted(first, 1)
                 ELSE Counted(Pass(first.phases, first.mask, fd, m), 2) :
                   first \in { Pass(ph, mk, fd, m) } } : TRUE

\* the time loop of getClockTECFit is not running
LoopIdle ==
  /\ pc = "off"
  /\ itm = 0
  /\ succes = FALSE
  /\ initprevsol = NoneSt
  /\ nrFail = [ist \in Stations |-> 0]
  /\ sol = ZeroSol
  /\ prevsol = ZeroSol
  /\ initSol = << >>
  /\ count = [ist \in Stations |-> 0]
  /\ ndtec = [ist \in Stations |-> 0]
  /\ ndt = [ist \in Stations |-> 0]
  /\ searched = NoneSt
  /\ fitted = NoneSt
  /\ chi2 = [ist \in Stations |-> 0]
  /\ chi2select = NoneSt
  /\ tecarray = ZeroArr
  /\ clockarray = ZeroArr

\* a masked array, a model and a window handed to unwrapPhases
UnwrapInit ==
  /\ LoopIdle
  /\ DoFitIdle
  /\ InitParIdle
  /\ BandpassIdle
  /\ WindowIdle
  /\ WrapsIdle
  /\ ParserIdle
  /\ phases \in [Samples -> PhaseVals]
  /\ mymask \in Masks
  /\ fitdata \in FitDatas
  /\ maskrange \in MaskRanges
  /\ calls = 0
  /\ returned = << >>
  /\ nriter = 0

\* unwrapPhases(phases, fitdata, maskrange) on the array as it stands: on
\* the input first, on its own result next
Unwrap ==
  /\ calls < 2
  /\ LET r == unwrapPhases(phases, mymask, fitdata, maskrange)
     IN  /\ phases' = r.phases
         /\ mymask' = r.mask
         /\ nriter' = r.passes
  /\ returned' = [phases |-> phases, mask |-> mymask]
  /\ calls' = calls + 1
  /\ UNCHANGED << fitdata, maskrange, loopVars, doFitVars, initParVars, bandpassVars, windowVars, wrapVars, parserVars >>

UnwrapNext == Unwrap

SpecUnwrap == UnwrapInit /\ [][UnwrapNext]_vars

\* ======================================================= unwrapPhases claims

\* C10, as claimed: unwrapPhases applied to what it returned, with the mask
\* it returned, changes nothing: the mask is the same and every valid sample
\* has the same value.
C10_UnwrapIdempotent ==
  calls = 2 =>
    /\ mymask = returned.mask
    /\ \A i \in Samples : ~mymask[i] => phases[i] = returned.phases[i]

\* the stored values ph with k whole turns added to the samples a..b
AddTurns(ph, a, b, k) ==
  Array([i \in Samples |-> IF a <= i /\ i <= b THEN ph[i] + k * TwoPi ELSE ph[i]])

\* two results of unwrapPhases are the same: the same samples are flagged
\* and every valid sample has the same value
SameResult(r1, r2) ==
  /\ r1.mask = r2.mask
  /\ \A i \in Samples : ~r1.mask[i] => r1.phases[i] = r2.phases[i]

\* C11, as claimed: adding a whole number of turns to any contiguous
\* sub-range of the input does not change what unwrapPhases returns, for
\* every input the specification draws (with and without fitdata, with
\* and without flagged samples).
C11_WrapInvariance ==
  calls = 0 =>
    \A a \in Samples : \A b \in a .. (nSamples - 1) : \A k \in {-1, 1} :
      SameResult(unwrapPhases(AddTurns(phases, a, b, k), mymask, fitdata, maskrange),
                 unwrapPhases(phases, mymask, fitdata, maskrange))

\* lines 73-82 of the first pass: the array unmasked before the masked
\* samples are replaced
Unmasked(ph, mk, fd) ==
  IF Len(fd) = nSamples
  THEN WrapTo(ph, mk, Array([i \in Samples |-> fd[i + 1]]))
  ELSE NpUnwrap(ph)

\* C19, as claimed: before the jumps are looked for, every masked sample is
\* replaced: within maskrange samples of the start or of the end of the
\* sequence by the value of a sample next to it, in the interior by the
\* straight line through the maskrange samples that follow it (the reverse
\* pass, run after the forward one).
C19_EveryMaskedSampleRepaired ==
  calls = 0 =>
    LET u == Repair(Unmasked(phases, mymask, fitdata), mymask, maskrange)
    IN  \A i \in Samples :
          mymask[i] =>
            IF i < maskrange \/ i > nSamples - 1 - maskrange
            THEN \/ i > 0 /\ u[i] = u[i - 1]
                 \/ i < nSamples - 1 /\ u[i] = u[i + 1]
            ELSE u[i] = PolyFit(u, i + 1, maskrange, -1)

\* C23: unwrapPhases makes at most two passes and returns after the first
\* one that flags no sample; the mask it returns contains the mask handed
\* in, and the mask of the first and of the last sample is the one handed
\* in.
C23_TwoPassesMaskGrows ==
  calls = 1 =>
    LET p1 == Pass(returned.phases, returned.mask, fitdata, maskrange)
        p2 == Pass(p1.phases, p1.mask, fitdata, maskrange)
        last == IF p1.flagged THEN p2 ELSE p1
    IN  /\ nriter = (IF p1.flagged THEN 2 ELSE 1)
        /\ phases = last.phases
        /\ mymask = last.mask
        /\ \A i \in Samples : returned.mask[i] => mymask[i]
        /\ mymask[0] = returned.mask[0]
        /\ mymask[nSamples - 1] = returned.mask[nSamples - 1]

\* C23, witness: the first pass flagged a valid sample, the second pass
\* another one, and unwrapPhases returned what the second pass left
C23_Witness ==
  /\ calls = 1
  /\ LET p1 == Pass(returned.phases, returned.mask, fitdata, maskrange)
         p2 == Pass(p1.phases, p1.mask, fitdata, maskrange)
     IN  /\ p1.flagged /\ p1.mask # returned.mask
         /\ p2.flagged /\ p2.mask # p1.mask

\* =============================================================== getInitPar
\* The data argument of getInitPar is the masked array the three calls of
\* unwrapPhases work on: phases and mymask hold it, one sample per
\* frequency channel.  The least squares solves of lines 151, 154 and 161
\* are computed when the valid samples are exactly the model phases of some
\* parameters (then the solve returns these parameters) and drawn from
\* LSQPars otherwise.  Everything else (model phases, residual variance,
\* argmin, lattice point) is computed.

\* the two columns of the design matrix A of lines 141-143 on the channel
\* grid freq = 1, 2, 3, ...: the dispersive one falls as 1/freq, the clock
\* one grows as freq
A0(i) == 0 - (12 \div (i + 1))
A1(i) == i + 1

\* lattice step of each parameter (line 159), TEC step negative
lsqsteps == << -3, 4 >>
\* results of the least squares solves of lines 151, 154 and 161
LSQPars == { <<0, 0>>, <<2, -1>>, <<-3, 5>> }
\* the half-width arguments the callers pass
NrTECs == { 1, 2, 4 }
NrClocks == { 1, 2 }
\* the initsol argument: all zero, or a solution to start from
InitGuesses == { <<0, 0>>, <<-1, 1>> }
\* the data argument: more than half of the channels are valid (line 262)
InitParData == [Samples -> { 0, 8 }]
InitParMasks == { mk \in Masks : Cardinality({ i \in Samples : mk[i] }) <= 1 }
\* default of the maskrange argument of unwrapPhases (line 69)
DefaultMaskRange == 15

\* np.dot(p, A.T): the model phases of the parameters p, per channel
ModelPhases(p) == [i \in 1 .. nSamples |-> p[1] * A0(i - 1) + p[2] * A1(i - 1)]

\* noise-free data generated from the parameters p, every channel valid
Generated(p) == Array([i \in Samples |-> ModelPhases(p)[i + 1]])
AllValid == [i \in Samples |-> FALSE]

\* data that need no wraps: neighbouring channels differ by less than half
\* a turn and the average is within half a turn of zero
NeedsNoWraps(d) ==
  /\ \A i \in 0 .. (nSamples - 2) : 2 * Abs(d[i + 1] - d[i]) < TwoPi
  /\ 2 * Abs(SumTo(d, nSamples - 1)) < nSamples * TwoPi

\* generating parameters whose data need no wraps and that are within
\* half a lattice step of zero in the sense of line 153
TruePars ==
  { p \in (-1 .. 1) \X (-5 .. 5) :
      /\ NeedsNoWraps(Generated(p))
      /\ RoundDiv(RoundDiv(p[1], lsqsteps[1]) + RoundDiv(p[2], lsqsteps[2]), 2) = 0 }

\* the least squares solve on the valid samples of ph (lines 151, 154, 161
\* and 287): exact on noise-free data with two or more valid channels
ExactPars(ph, mk) ==
  { q \in (-1 .. 1) \X (-5 .. 5) :
      \A i \in Samples : ~mk[i] => ph[i] = ModelPhases(q)[i + 1] }
LSQ(ph, mk) ==
  IF ExactPars(ph, mk) # {} /\ Cardinality({ i \in Samples : ~mk[i] }) >= 2
  THEN ExactPars(ph, mk)
  ELSE LSQPars

\* line 144 under Python 2 division of integers (-n/2 is rounded down):
\* the index grid a, first and last TEC offset, first and last clock offset
IndexGrid(ntec, nclock) ==
  [teclo   |-> (0 - ntec) \div 2,        techi   |-> ntec \div 2,
   clocklo |-> 0 - (nclock \div 2),      clockhi |-> nclock \div 2]

\* the offsets of the grid g, as pairs
Offsets2D(g) == (g.teclo .. g.techi) \X (g.clocklo .. g.clockhi)

\* line 164: the lattice point bigdata[a] around the centre c
LatticePoint(c, a) == << a[1] * lsqsteps[1] + c[1], a[2] * lsqsteps[2] + c[2] >>

\* lines 165-167: np.ma.var over the valid channels of model(p) - data,
\* multiplied by the square of the number of valid channels
SumValid(f, mk, k) ==
  LET S[i \in -1 .. k] ==
        IF i < 0 THEN 0 ELSE S[i - 1] + (IF mk[i] THEN 0 ELSE f[i])
  IN  S[k]
Variance(p, ph, mk) ==
  LET m   == ModelPhases(p)
      x   == Array([i \in Samples |-> m[i + 1] - ph[i]])
      xx  == Array([i \in Samples |-> x[i] * x[i]])
      n   == Cardinality({ i \in Samples : ~mk[i] })
      sx  == SumValid(x, mk, nSamples - 1)
      sxx == SumValid(xx, mk, nSamples - 1)
  IN  n * sxx - sx * sx

\* position of an offset pair in the flattened grid (row-major, the clock
\* offset runs fastest)
FlatIndex(g, a) ==
  (a[1] - g.teclo) * (g.clockhi - g.clocklo + 1) + (a[2] - g.clocklo)

\* line 167: np.argmin of the variances over the grid, the first of the
\* smallest ones in the flattened order
ArgMin_Last(g, c, ph, mk) ==
  CHOOSE a \in Offsets2D(g) :
    \A b \in Offsets2D(g) : FlatIndex(g, b) <= FlatIndex(g, a)
ArgMin(g, c, ph, mk) ==
  LET v == Array([a \in Offsets2D(g) |-> Variance(LatticePoint(c, a), ph, mk)])
  IN  CHOOSE a \in Offsets2D(g) :
        \A b \in Offsets2D(g) :
          \/ v[a] < v[b]
          \/ v[a] = v[b] /\ FlatIndex(g, a) <= FlatIndex(g, b)

\* phases - k*2*pi on a masked array: the valid samples only
ShiftValid(ph, mk, k) ==
  Array([i \in Samples |-> IF mk[i] THEN ph[i] ELSE ph[i] - k * TwoPi])

\* a call getInitPar(data, freqs, nrTEC, nrClock, nrthird=0, initsol)
InitParInit ==
  /\ BandpassIdle
  /\ WindowIdle
  /\ WrapsIdle
  /\ ParserIdle
  /\ LoopIdle
  /\ DoFitIdle
  /\ \/ /\ truth = << >>
        /\ phases \in InitParData
        /\ mymask \in InitParMasks
     \/ /\ truth \in TruePars
        /\ phases = Generated(truth)
        /\ mymask = AllValid
  /\ fitsol = << >>
  /\ fitdata = << >>
  /\ maskrange = DefaultMaskRange
  /\ calls = 0
  /\ returned = << >>
  /\ nriter = 0
  /\ ippc = "unwrap"
  /\ nrTEC \in NrTECs
  /\ nrClock \in NrClocks
  /\ initsol \in InitGuesses
  /\ grid = IndexGrid(nrTEC, nrClock)
  /\ guess = << >>
  /\ selected = << >>
  /\ ph_itm = [data |-> phases, mask |-> mymask]

\* line 219: datatmp = np.ma.copy(data[itm, :]) has data and mask of its own
RowCopied_View == FALSE
RowCopied == TRUE

\* the row of the caller after (p, m) was written to datatmp[:, ist]
Caller(p, m) == IF RowCopied THEN ph_itm ELSE [data |-> p, mask |-> m]

\* lines 145-147: a non-zero initsol, the data are wrapped to its model
UnwrapToInitsol ==
  /\ ippc = "unwrap"
  /\ ~(initsol[1] = 0 /\ initsol[2] = 0)
  /\ LET r == unwrapPhases(phases, mymask, ModelPhases(initsol), maskrange)
     IN  /\ phases' = r.phases
         /\ mymask' = r.mask
         /\ nriter' = r.passes
  /\ fitdata' = ModelPhases(initsol)
  /\ calls' = calls + 1
  /\ ippc' = "search"
  /\ UNCHANGED << maskrange, returned, nrTEC, nrClock, initsol, grid, guess,
                  selected, truth, fitsol, loopVars, doFitVars, bandpassVars, windowVars, wrapVars, parserVars >>
  /\ ph_itm' = Caller(phases', mymask')

\* lines 148-156: no initsol, the data are unwrapped alone and moved by
\* whole turns to parameters near zero; nrTEC and nrClock grow
UnwrapFree ==
  /\ ippc = "unwrap"
  /\ initsol[1] = 0 /\ initsol[2] = 0
  /\ LET r == unwrapPhases(phases, mymask, << >>, maskrange)
     IN  \E p1 \in LSQ(r.phases, r.mask) :
           LET k == RoundDiv(RoundDiv(p1[1], lsqsteps[1])
                             + RoundDiv(p1[2], lsqsteps[2]), 2)
               shifted == ShiftValid(r.phases, r.mask, k)
           IN  \E p2 \in LSQ(shifted, r.mask) :
                 /\ phases' = shifted
                 /\ mymask' = r.mask
              /\ nriter' = r.passes
                 /\ nriter' = r.passes
         /\ nriter' = r.passes
                 /\ nrTEC' = nrTEC + Abs(RoundDiv(p2[1], lsqsteps[1]))
                 /\ nrClock' = nrClock + Abs(RoundDiv(p2[2], lsqsteps[2]))
  /\ calls' = calls + 1
  /\ ippc' = "search"
  /\ UNCHANGED << fitdata, maskrange, returned, initsol, grid, guess,
                  selected, truth, fitsol, loopVars, doFitVars, bandpassVars, windowVars, wrapVars, parserVars >>
  /\ ph_itm' = Caller(phases', mymask')

\* lines 158-168: the lattice around the least squares guess is searched
\* for the smallest residual variance
Search ==
  /\ ippc = "search"
  /\ \E c \in LSQ(phases, mymask) :
       /\ guess' = c
       /\ selected' = LatticePoint(c, ArgMin(grid, c, phases, mymask))
  /\ ippc' = "wrap"
  /\ UNCHANGED << unwrapVars, nrTEC, nrClock, initsol, grid, truth, fitsol,
                  loopVars, doFitVars, bandpassVars, windowVars, wrapVars, parserVars >>
  /\ ph_itm' = Caller(phases', mymask')

\* lines 169-170 and 183: the data are wrapped to the model of the
\* selected parameters; par and data are returned
WrapToPar ==
  /\ ippc = "wrap"
  /\ LET r == unwrapPhases(phases, mymask, ModelPhases(selected), maskrange)
     IN  /\ phases' = r.phases
         /\ mymask' = r.mask
         /\ nriter' = r.passes
  /\ fitdata' = ModelPhases(selected)
  /\ calls' = calls + 1
  /\ ippc' = "return"
  /\ UNCHANGED << maskrange, returned, nrTEC, nrClock, initsol, grid, guess,
                  selected, truth, fitsol, loopVars, doFitVars, bandpassVars, windowVars, wrapVars, parserVars >>
  /\ ph_itm' = Caller(phases', mymask')

\* the fit of getClockTECFit on what getInitPar returned (lines 274-287):
\* with fewer than half of the channels valid the station is not fitted
FitAfterSearch ==
  /\ ippc = "return"
  /\ IF 2 * Cardinality({ i \in Samples : ~mymask[i] }) < nSamples
     THEN /\ fitsol' = << FAILVALUE, FAILVALUE >>
          /\ UNCHANGED << phases, mymask, fitdata, calls, nriter >>
     ELSE LET r == unwrapPhases(phases, mymask, ModelPhases(selected), maskrange)
          IN  /\ phases' = r.phases
              /\ mymask' = r.mask
              /\ nriter' = r.passes
         /\ nriter' = r.passes
              /\ fitsol' \in LSQ(r.phases, r.mask)
              /\ fitdata' = ModelPhases(selected)
              /\ calls' = calls + 1
  /\ ippc' = "fitted"
  /\ UNCHANGED << maskrange, returned, nrTEC, nrClock, initsol, grid, guess,
                  selected, truth, loopVars, doFitVars, bandpassVars, windowVars, wrapVars, parserVars >>
  /\ ph_itm' = Caller(phases', mymask')

InitParNext ==
  UnwrapToInitsol \/ UnwrapFree \/ Search \/ WrapToPar \/ FitAfterSearch

SpecInitPar == InitParInit /\ [][InitParNext]_vars

\* ======================================================== getInitPar claims

\* C12, as claimed: for noise-free data generated from known parameters that
\* need no wraps, at the first timestep (no initial solution), the fit of
\* getClockTECFit returns the generating parameters.  The generating
\* parameters are never the fill value -10 of a station that is not fitted,
\* so the claim requires that the station is fitted: that is what is
\* checked here, and it does not depend on any drawn least squares result.
C12_RoundTrip ==
  (ippc = "fitted" /\ truth # << >> /\ initsol = <<0, 0>>) =>
    fitsol # << FAILVALUE, FAILVALUE >>

\* C13: the parameters getInitPar selects (and returns) are a point of the
\* enumerated lattice, and no point of the lattice has a strictly smaller
\* residual variance against the unwrapped data (the data as the search
\* of lines 164-167 sees them).
C13_MinimalVariance ==
  ippc = "wrap" =>
    /\ \E a \in Offsets2D(grid) : selected = LatticePoint(guess, a)
    /\ \A b \in Offsets2D(grid) :
         Variance(selected, phases, mymask)
           <= Variance(LatticePoint(guess, b), phases, mymask)

\* C13, witness: a search over more than one lattice point whose variances
\* differ ended away from the centre of the lattice
C13_Witness ==
  /\ ippc = "wrap"
  /\ selected # guess
  /\ \E b \in Offsets2D(grid) :
       Variance(selected, phases, mymask)
         < Variance(LatticePoint(guess, b), phases, mymask)

\* C30, as claimed: for every requested pair of half-width counts the
\* lattice of getInitPar holds the zero offset and is symmetric about it in
\* both parameters: TEC offsets -floor(nrTEC/2) .. floor(nrTEC/2), clock
\* offsets -floor(nrClock/2) .. floor(nrClock/2), with the division of
\* integers the program runs under.
C30_LatticeSymmetric ==
  /\ << 0, 0 >> \in Offsets2D(grid)
  /\ grid.teclo = 0 - grid.techi
  /\ grid.clocklo = 0 - grid.clockhi
  /\ ippc = "unwrap" =>
       /\ grid.techi = nrTEC \div 2
       /\ grid.clockhi = nrClock \div 2

HBAStations ==
  << [name |-> "CS001HBA0", CS |-> TRUE,  RS |-> FALSE, LBA |-> FALSE],
     [name |-> "RS106HBA",  CS |-> FALSE, RS |-> TRUE,  LBA |-> FALSE],
     [name |-> "DE601HBA",  CS |-> FALSE, RS |-> FALSE, LBA |-> FALSE] >>
LBAStations ==
  << [name |-> "CS001LBA",  CS |-> TRUE,  RS |-> FALSE, LBA |-> TRUE],
     [name |-> "RS106LBA",  CS |-> FALSE, RS |-> TRUE,  LBA |-> TRUE],
     [name |-> "DE601LBA",  CS |-> FALSE, RS |-> FALSE, LBA |-> TRUE] >>
StationLists == { HBAStations, LBAStations }

\* lines 275-278: what getClockTECFit returns for a station with fewer than
\* half of its channels valid at the timestep, where no fit is made
NoFit == [tec |-> FAILVALUE, clock |-> FAILVALUE]
\* what getClockTECFit returns for the data of one station (TEC, clock) at
\* the timestep that is followed: a fitted value, or the value of NoFit
FitResults == { [tec |-> 2, clock |-> 4], NoFit }
\* offset of one station found by correctWraps
Offsets == { 0, 2 }
\* coarse clock of one station found by getInitClock
CoarseClocks == { 0, 6 }
\* values of the chi2cut argument of doFit, below and above the cutoff
\* of line 541
UserChi2Cuts == { 300, 100000 }

\* data.shape[3] as handed in
Npols == { 1, 2, 4 }

\* line 492: names of the stations that are not completely flagged
SelectStations(old, masked) ==
  { old[i].name : i \in { j \in 1 .. Len(old) : ~masked[j] } }

\* data[:, :, stationIndices], stations[stationIndices]: the positions in
\* stations_old of the first k entries that are kept, in order
RECURSIVE Compress(_, _)
Compress(flags, k) ==
  IF k = 0 THEN << >>
  ELSE Compress(flags, k - 1) \o (IF flags[k] THEN << k >> ELSE << >>)

\* position in stations_old of each station of the reduced arrays
Kept == Compress(stationIndices, Len(stationIndices))

\* mutant: the core stations are among the stations of line 522
NonCore_EveryStation(st) == TRUE

\* lines 500-502: member of RSstations + otherstations
NonCore(st) == st.RS \/ (~st.RS /\ ~st.CS)

\* lines 517 and 616: not 'LBA' in stations[0] and len(initSol) < 1
ClockGuessed == ~stations_old[Kept[1]].LBA /\ ~initSolGiven

\* one value for every polarization
Col(v) == [p \in 1 .. npol |-> v]

\* np.insert(a, i, col, axis) on the station axis
Insert(a, i, col) == SubSeq(a, 1, i) \o << col >> \o SubSeq(a, i + 1, Len(a))

\* arguments of doFit, data masked per station as they are at line 491
DoFitInit ==
  /\ LoopIdle
  /\ UnwrapIdle
  /\ InitParIdle
  /\ BandpassIdle
  /\ WindowIdle
  /\ WrapsIdle
  /\ ParserIdle
  /\ dfpc = "select"
  /\ stations_old \in StationLists
  /\ allmasked \in [1 .. Len(HBAStations) -> BOOLEAN]
  /\ removePhaseWraps \in BOOLEAN
  /\ combine_pol \in BOOLEAN
  /\ circular \in BOOLEAN
  /\ initSolGiven \in BOOLEAN
  /\ fitres \in [1 .. Len(HBAStations) -> FitResults]
  /\ npol \in Npols
  /\ stationIndices = << >>
  /\ engine = {}
  /\ initclock = << >>
  /\ offset = << >>
  /\ clock = << >>
  /\ tec = << >>
  /\ pol = 0
  /\ idx = 0
  /\ fitcalls = << >>
  /\ chi2cut_arg \in UserChi2Cuts
  /\ removed = << >>

\* lines 449-451 and 491-504: the completely flagged stations are removed
DropFlagged ==
  /\ dfpc = "select"
  /\ npol' = IF npol = 4 THEN 2 ELSE npol
  /\ stationIndices' =
       [i \in 1 .. Len(stations_old) |->
          stations_old[i].name \in SelectStations(stations_old, allmasked)]
  /\ dfpc' = "combine"
  /\ UNCHANGED << removed, chi2cut_arg, fitcalls, stations_old, allmasked, removePhaseWraps, combine_pol,
                  circular, initSolGiven, fitres, engine, initclock, offset,
                  clock, tec, pol, idx, loopVars, unwrapVars,
                  initParVars, bandpassVars, windowVars, wrapVars, parserVars >>

\* lines 506-514
CombinePol ==
  /\ dfpc = "combine"
  /\ npol' = IF combine_pol /\ ((npol = 2 /\ ~circular) \/ circular)
             THEN 1 ELSE npol
  /\ dfpc' = "guess"
  /\ UNCHANGED << removed, chi2cut_arg, fitcalls, stations_old, allmasked, removePhaseWraps, combine_pol,
                  circular, initSolGiven, fitres, stationIndices, engine,
                  initclock, offset, clock, tec, pol, idx, loopVars,
                  unwrapVars, initParVars, bandpassVars, windowVars, wrapVars, parserVars >>

\* lines 515-533: stations[0] of line 517 is the first station that is kept;
\* with no station kept the subscript raises IndexError
GuessClock ==
  /\ dfpc = "guess"
  /\ IF Len(Kept) = 0
     THEN /\ dfpc' = "IndexError"
          /\ UNCHANGED << initclock, offset, clock, tec, removed >>
     ELSE /\ dfpc' = "fit"
          /\ IF ClockGuessed
             THEN \E g \in [1 .. Len(Kept) -> CoarseClocks] :
                    initclock' = [k \in 1 .. Len(Kept) |->
                                    IF NonCore(stations_old[Kept[k]])
                                    THEN g[k] ELSE 0]
             ELSE initclock' = << >>
          /\ removed' = [k \in 1 .. Len(Kept) |->
                           IF ClockGuessed /\ NonCore(stations_old[Kept[k]])
                           THEN initclock'[k] ELSE 0]
          /\ offset' = [k \in 1 .. Len(Kept) |-> Col(0)]
          /\ clock' = [k \in 1 .. Len(Kept) |-> Col(0)]
          /\ tec' = [k \in 1 .. Len(Kept) |-> Col(0)]
  /\ UNCHANGED << chi2cut_arg, fitcalls, stations_old, allmasked, removePhaseWraps, combine_pol,
                  circular, initSolGiven, fitres, npol, stationIndices,
                  engine, pol, idx, loopVars, unwrapVars,
                  initParVars, bandpassVars, windowVars, wrapVars, parserVars >>

\* lines 539-541: the cutoff of the first run
initialchi2cut == IF removePhaseWraps THEN chi2cut ELSE chi2cut_arg

\* line 346: the change of (TEC, clock) that one phase wrap of 2 pi makes
wrapsteps == << -2, 4 >>

\* wraps of the kept stations, as correctWraps (line 565) or
\* correctWrapsFromResiduals (line 568) returns them: whole numbers of either
\* sign, referenced to the first station (line 376)
WrapCounts ==
  { [k \in 1 .. Len(Kept) |-> 0],
    [k \in 1 .. Len(Kept) |-> 0 - ((k + 1) % 2)] }

\* tecarray[0, :] and clockarray[0, :] of the first run: what the run found
\* at the timestep the model follows, or other values
FirstTimestep(res) ==
  { res,
    [k \in 1 .. Len(Kept) |->
       [tec |-> res[k].tec + 2, clock |-> res[k].clock - 2]] }

\* lines 610-611, and with the results of the first timestep lines 581-582
PlusWraps(res, wraps) ==
  [k \in 1 .. Len(Kept) |->
     [tec |-> res[k].tec + wraps[k] * wrapsteps[1],
      clock |-> res[k].clock + wraps[k] * wrapsteps[2]]]

\* lines 580-582: initsol of the second run
Initsol_Unwrapped(first, wraps) == first
Initsol(first, wraps) == PlusWraps(first, wraps)

\* lines 590-608: what the second run returns, started from init. It reads
\* the mask the first run read, so it makes no fit where the first run made
\* none (coarse is the result of the first run)
Refits(init, coarse) ==
  { [k \in 1 .. Len(Kept) |->
       IF coarse[k] = NoFit THEN NoFit
       ELSE [tec |-> init[k].tec + 2, clock |-> init[k].clock + 2]] }

\* lines 536-615 for one polarization: the fit engine is handed the reduced
\* data, wraps are looked for in what it returns, and column pol of tec and
\* clock is filled from a second run or from the first one
FitPol ==
  /\ dfpc = "fit"
  /\ pol < npol
  /\ engine' = engine \cup { Kept[k] : k \in 1 .. Len(Kept) }
  /\ LET coarse == [k \in 1 .. Len(Kept) |-> fitres[Kept[k]]]
     IN  \E first \in FirstTimestep(coarse) : \E wraps \in WrapCounts :
           LET run1 == [fn |-> "getClockTECFit", first |-> first,
                        chi2cut |-> initialchi2cut, out |-> coarse]
           IN  IF removePhaseWraps
               THEN \E refit \in Refits(Initsol(first, wraps), coarse) :
                      /\ fitcalls' = Append(fitcalls,
                           << run1,
                              [fn |-> "correctWraps", out |-> wraps],
                              [fn |-> "getClockTECFit",
                               initSol |-> Initsol(first, wraps),
                               chi2cut |-> chi2cut_arg,
                               out |-> refit] >>)
                      /\ tec' = [k \in 1 .. Len(Kept) |->
                                   [tec[k] EXCEPT ![pol + 1] = refit[k].tec]]
                      /\ clock' = [k \in 1 .. Len(Kept) |->
                                     [clock[k] EXCEPT
                                        ![pol + 1] = refit[k].clock]]
               ELSE /\ fitcalls' = Append(fitcalls,
                         << run1,
                            [fn |-> "correctWrapsFromResiduals",
                             out |-> wraps] >>)
                    /\ tec' = [k \in 1 .. Len(Kept) |->
                                 [tec[k] EXCEPT
                                    ![pol + 1] =
                                      PlusWraps(coarse, wraps)[k].tec]]
                    /\ clock' = [k \in 1 .. Len(Kept) |->
                                   [clock[k] EXCEPT
                                      ![pol + 1] =
                                        PlusWraps(coarse, wraps)[k].clock]]
  /\ IF removePhaseWraps
     THEN \E off \in [1 .. Len(Kept) -> Offsets] :
            offset' = [k \in 1 .. Len(Kept) |->
                         [offset[k] EXCEPT ![pol + 1] = off[k]]]
     ELSE UNCHANGED offset
  /\ pol' = pol + 1
  /\ dfpc' = IF pol + 1 < npol THEN "fit" ELSE "restore"
  /\ UNCHANGED << removed, chi2cut_arg, stations_old, allmasked, removePhaseWraps, combine_pol,
                  circular, initSolGiven, fitres, npol, stationIndices,
                  initclock, idx, loopVars, unwrapVars,
                  initParVars, bandpassVars, windowVars, wrapVars, parserVars >>

\* lines 616-619: the coarse clock is put back, circular sums are halved
RestoreClock ==
  /\ dfpc = "restore"
  /\ LET full  == [k \in 1 .. Len(Kept) |->
                     [p \in 1 .. npol |->
                        clock[k][p]
                        + (IF ClockGuessed /\ NonCore(stations_old[Kept[k]])
                           THEN initclock[k] ELSE 0)]]
         halve == combine_pol /\ circular
         Halved(a) == [k \in 1 .. Len(Kept) |->
                         [p \in 1 .. npol |-> a[k][p] \div 2]]
     IN  /\ clock' = IF halve THEN Halved(full) ELSE full
         /\ tec' = IF halve THEN Halved(tec) ELSE tec
         /\ offset' = IF halve THEN Halved(offset) ELSE offset
  /\ idx' = 0
  /\ dfpc' = "putback"
  /\ UNCHANGED << removed, chi2cut_arg, fitcalls, stations_old, allmasked, removePhaseWraps, combine_pol,
                  circular, initSolGiven, fitres, npol, stationIndices,
                  engine, initclock, pol, loopVars, unwrapVars,
                  initParVars, bandpassVars, windowVars, wrapVars, parserVars >>

\* lines 622-628, one turn of the loop: np.insert raises IndexError for a
\* position beyond the end of the axis
PutBack ==
  /\ dfpc = "putback"
  /\ idx < Len(stationIndices)
  /\ IF stationIndices[idx + 1]
     THEN UNCHANGED << dfpc, clock, tec, offset >>
     ELSE IF idx > Len(clock)
     THEN dfpc' = "IndexError" /\ UNCHANGED << clock, tec, offset >>
     ELSE /\ clock' = Insert(clock, idx, Col(0))
          /\ tec' = Insert(tec, idx, Col(TECSENTINEL))
          /\ offset' = Insert(offset, idx, Col(0))
          /\ dfpc' = dfpc
  /\ idx' = idx + 1
  /\ UNCHANGED << removed, chi2cut_arg, fitcalls, stations_old, allmasked, removePhaseWraps, combine_pol,
                  circular, initSolGiven, fitres, npol, stationIndices,
                  engine, initclock, pol, loopVars, unwrapVars,
                  initParVars, bandpassVars, windowVars, wrapVars, parserVars >>

\* lines 630-634
Return ==
  /\ dfpc = "putback"
  /\ idx = Len(stationIndices)
  /\ dfpc' = "returned"
  /\ UNCHANGED << removed, chi2cut_arg, fitcalls, stations_old, allmasked, removePhaseWraps, combine_pol,
                  circular, initSolGiven, fitres, npol, stationIndices,
                  engine, initclock, offset, clock, tec, pol, idx, loopVars,
                  unwrapVars, initParVars, bandpassVars, windowVars, wrapVars, parserVars >>

DoFitNext ==
  DropFlagged \/ CombinePol \/ GuessClock \/ FitPol \/ RestoreClock
    \/ PutBack \/ Return

SpecDoFit == DoFitInit /\ [][DoFitNext]_vars

\* ============================================================== doFit claims

\* lines 600-611: what the loop over the polarizations assigned to column p
\* of tec and clock, by the calls it made
Assigned(p) ==
  IF removePhaseWraps
  THEN fitcalls[p][3].out
  ELSE PlusWraps(fitcalls[p][1].out, fitcalls[p][2].out)

\* the arrays doFit returns hold every station of stations_old at its own
\* place: placeholders for the flagged ones, the results of the fit engine
\* for the others
DoFitPlacement ==
  LET n  == Len(stations_old)
      h  == IF combine_pol /\ circular THEN 2 ELSE 1
      k(i) == Cardinality({ j \in 1 .. i : ~allmasked[j] })
  IN  /\ Len(clock) = n /\ Len(tec) = n /\ Len(offset) = n
      /\ \A i \in 1 .. n : \A p \in 1 .. npol :
           IF allmasked[i]
           THEN clock[i][p] = 0 /\ tec[i][p] = -5 /\ offset[i][p] = 0
           ELSE /\ h * tec[i][p] = Assigned(p)[k(i)].tec
                /\ h * clock[i][p] =
                     Assigned(p)[k(i)].clock
                     + (IF ~stations_old[i].CS /\ Len(initclock) > 0
                        THEN initclock[k(i)] ELSE 0)

\* C9, as claimed: doFit never aborts because of completely flagged
\* stations, no such station is handed to the fit engine, and the arrays it
\* returns have one entry per station of the original list, in the original
\* order: clock 0, TEC -5, offset 0 for a flagged station, the results of
\* the fit for the others.
C9_EveryStationReturned ==
  /\ dfpc # "IndexError"
  /\ \A i \in engine : ~allmasked[i]
  /\ dfpc = "returned" => DoFitPlacement

\* a run of doFit that returns has every station in place
ReturnedInPlace ==
  /\ \A i \in engine : ~allmasked[i]
  /\ dfpc = "returned" => DoFitPlacement

\* the runs of getClockTECFit among the calls made for one polarization
Runs(log) == { j \in 1 .. Len(log) : log[j].fn = "getClockTECFit" }

\* C16: for each polarization of doFit, with wrap removal getClockTECFit
\* runs exactly twice with correctWraps between the two runs, the second run
\* starts from the TEC and clock of the first timestep of the first run
\* plus wraps x step, and its result is the output; without wrap removal
\* getClockTECFit runs exactly once and the output is its result plus
\* wraps x step.
C16_TwoPassFit ==
  dfpc \in {"fit", "restore"} =>
    /\ Len(fitcalls) = pol
    /\ \A p \in 1 .. Len(fitcalls) :
         LET log == fitcalls[p]
         IN  IF removePhaseWraps
             THEN /\ Runs(log) = {1, 3}
                  /\ log[2].fn = "correctWraps"
                  /\ \A k \in 1 .. Len(Kept) :
                       /\ log[3].initSol[k].tec =
                            log[1].first[k].tec + log[2].out[k] * wrapsteps[1]
                       /\ log[3].initSol[k].clock =
                            log[1].first[k].clock
                            + log[2].out[k] * wrapsteps[2]
                       /\ tec[k][p] = log[3].out[k].tec
                       /\ clock[k][p] = log[3].out[k].clock
             ELSE /\ Runs(log) = {1}
                  /\ \A j \in 1 .. Len(log) : log[j].fn # "correctWraps"
                  /\ \A k \in 1 .. Len(Kept) :
                       /\ tec[k][p] =
                            log[1].out[k].tec + log[2].out[k] * wrapsteps[1]
                       /\ clock[k][p] =
                            log[1].out[k].clock
                            + log[2].out[k] * wrapsteps[2]

\* C16, witness: two polarizations are done with wrap removal, a station
\* has a wrap, and the first timestep of the first run of the second
\* polarization differs from the timestep that is followed
C16_Witness ==
  /\ dfpc = "restore"
  /\ removePhaseWraps
  /\ Len(fitcalls) = 2
  /\ \E k \in 1 .. Len(Kept) :
       /\ fitcalls[2][2].out[k] # 0
       /\ fitcalls[2][1].first[k] # fitcalls[2][1].out[k]

\* C21: with wrap removal the chi-square cutoff of the first run of
\* getClockTECFit is never smaller than the cutoff of the second run,
\* whatever chi2cut the user hands to doFit.
C21_FirstPassRelaxed ==
  removePhaseWraps =>
    \A p \in 1 .. Len(fitcalls) :
      fitcalls[p][1].chi2cut >= fitcalls[p][3].chi2cut

\* C24, as claimed: every TEC doFit returns for a sample where the last run
\* of getClockTECFit made no fit (fewer than half of the channels valid) is
\* a sentinel, TEC <= -5, for every combination of removePhaseWraps,
\* combine_pol and circular: adding wraps x step, putting the coarse clock
\* back and halving never lift it above -5.
C24_SentinelSurvives ==
  dfpc = "returned" =>
    LET k(i) == Cardinality({ j \in 1 .. i : ~allmasked[j] })
        last(p) == IF removePhaseWraps THEN fitcalls[p][3].out
                   ELSE fitcalls[p][1].out
    IN  \A i \in 1 .. Len(stations_old) : \A p \in 1 .. npol :
          (~allmasked[i] /\ last(p)[k(i)] = NoFit)
            => tec[i][p] <= TECSENTINEL

\* C22: the coarse clock is taken out of the data of a station exactly
\* when the first station kept is not a low-band one, no initial solution
\* was given and the station is not a core station; what was taken out of
\* the data of a station is what lines 616-617 add to its output clock
\* (before the halving of line 619), and the clock of every other station
\* and of every other run is left as it was.
C22_CoarseClockRestored ==
  [][ LET guessed == ~stations_old[Kept[1]].LBA /\ ~initSolGiven
          h == IF combine_pol /\ circular THEN 2 ELSE 1
      IN  /\ dfpc = "guess" /\ dfpc' = "fit" =>
                \A k \in 1 .. Len(Kept) :
                  removed'[k] =
                    (IF guessed /\ ~stations_old[Kept[k]].CS
                     THEN initclock'[k] ELSE 0)
          /\ dfpc = "restore" =>
                \A k \in 1 .. Len(Kept) : \A p \in 1 .. npol :
                  h * clock'[k][p] = clock[k][p] + removed[k] ]_vars

\* C22, witness: a run with a core station and another station, the coarse
\* clock of the other one was not zero and is back in the output
C22_Witness ==
  /\ dfpc = "putback"
  /\ idx = 0
  /\ ~stations_old[Kept[1]].LBA /\ ~initSolGiven
  /\ \E j, k \in 1 .. Len(Kept) :
       /\ stations_old[Kept[j]].CS /\ removed[j] = 0
       /\ ~stations_old[Kept[k]].CS /\ removed[k] # 0

\* ===================================================== getClockTECFit claims

\* an error-free timestep: the chi-square selection moved on to the next one
Stepped == pc \in {"copy", "done"} /\ itm > 0

\* C1, as claimed: after a timestep that ended with succes false, getInitPar
\* is called only for stations that still lack a carry-over solution.
C1_SearchOnlyWithoutCarryOver ==
  \A ist \in Stations : searched[ist] => ~initprevsol[ist]

\* C1, amended: when lines 221-271 run (first timestep, or succes false),
\* getInitPar is called for every station with more than half of its
\* channels valid, with or without carry-over; a station with carry-over is
\* seeded with the carry-over and gets the windows min(nrFail+1, cap), a
\* station without it gets the windows of its class (or 1 with an initSol).
C1_SearchEveryValidStation ==
  [][ pc = "init" =>
        \A ist \in Stations :
          /\ searched'[ist] <=> (2 * count[ist] > nF)
          /\ (itm > 0 /\ initprevsol[ist]) =>
               /\ ndtec'[ist] = nrFail[ist] + 1
               /\ ndt'[ist] = (IF ist = 0 /\ nrFail[ist] + 1 > 4
                               THEN 4 ELSE nrFail[ist] + 1)
               /\ (~searched'[ist] => sol'[ist] = prevsol[ist])
          /\ (itm = 0 \/ ~initprevsol[ist]) =>
               /\ ndtec'[ist] = (IF Len(initSol) > 0 THEN 1
                                 ELSE IF ist = 0 THEN 10 ELSE 80)
               /\ ndt'[ist] = (IF Len(initSol) > 0 THEN 1
                               ELSE IF ist = 0 THEN 4 ELSE 200) ]_vars

\* a later timestep at which a station with carry-over and a station without
\* it have both been through the lattice search
C1_Witness ==
  /\ pc = "fit"
  /\ itm > 0
  /\ \E i, j \in Stations :
       /\ initprevsol[i] /\ searched[i] /\ ndtec[i] = 1
       /\ ~initprevsol[j] /\ searched[j]

\* C2, as claimed: every rejected sample (too few channels, chi-square above
\* the cutoff, displacement above the threshold) is written to the output as
\* a sentinel TEC (below -5).
C2_EveryFailureIsSentinel ==
  \A ist \in Stations : chi2select[ist] => tecarray[ist] < TECSENTINEL * Scale

\* C2, amended: a station with fewer than half of its channels valid is
\* written to the output as TEC = clock = -10; a station rejected for its
\* chi-square or its displacement keeps the fitted TEC and clock in the
\* output; every rejection is counted (failure counter, succes false) and the
\* loop goes on to the next timestep.
C2_OnlyMissingDataIsSentinel ==
  [][ pc = "select" =>
        /\ \A ist \in Stations :
             /\ ~fitted[ist] =>
                  /\ tecarray'[ist] = (-10) * Scale
                  /\ clockarray'[ist] = (-10) * Scale
                  /\ chi2select'[ist]
             /\ fitted[ist] =>
                  /\ tecarray'[ist] = sol[ist][1]
                  /\ clockarray'[ist] = sol[ist][2]
             /\ chi2select'[ist] =>
                  /\ nrFail'[ist] = nrFail[ist] + 1
                  /\ ~succes'
        /\ itm' = itm + 1
        /\ pc' \in {"copy", "done"} ]_vars

\* one timestep with both kinds: station 0 lacks data and is a sentinel,
\* station 1 is rejected for its chi-square and keeps a TEC that is no sentinel
C2_Witness ==
  /\ Stepped
  /\ chi2select[0] /\ tecarray[0] = (-10) * Scale
  /\ chi2select[1] /\ chi2[1] > chi2cut
  /\ tecarray[1] >= TECSENTINEL * Scale

\* C3: a station is rejected at a timestep (its failure counter grows) if and
\* only if its chi-square exceeds chi2cut, or its TEC is below -5, or it has
\* a carry-over and the summed displacement from it, in lattice steps,
\* exceeds 0.3 x npar x (1 + failure counter before the timestep); otherwise
\* it is accepted (counter zero, carry-over present).
C3_RejectedIff ==
  [][ pc = "select" =>
        \A ist \in Stations :
          LET dTEC   == Abs(sol[ist][1] - prevsol[ist][1])
              dClock == Abs(sol[ist][2] - prevsol[ist][2])
              sTEC   == Abs(steps[1])
              sClock == Abs(steps[2])
              \* dTEC/sTEC + dClock/sClock > 0.3 * 2 * (1 + nrFail)
              far    == 10 * (dTEC * sClock + dClock * sTEC)
                          > 6 * (1 + nrFail[ist]) * sTEC * sClock
              bad    == \/ chi2'[ist] > chi2cut
                        \/ sol[ist][1] < (-5) * Scale
                        \/ (initprevsol[ist] /\ far)
          IN  /\ chi2select'[ist] <=> bad
              /\ bad => nrFail'[ist] = nrFail[ist] + 1
              /\ ~bad => (nrFail'[ist] = 0 /\ initprevsol'[ist]) ]_vars

\* a station rejected for its displacement alone, and a station accepted with
\* a displacement that the relaxed threshold of an earlier failure allows
C3_Witness ==
  /\ Stepped
  /\ \/ /\ chi2select[1] /\ chi2[1] <= chi2cut
        /\ tecarray[1] >= TECSENTINEL * Scale
        /\ nrFail[1] = 1
     \/ /\ ~chi2select[1] /\ nrFail[1] = 0 /\ initprevsol[1]
        /\ 10 * Abs(tecarray[1] - prevsol[1][1]) * Abs(steps[2])
             + 10 * Abs(clockarray[1] - prevsol[1][2]) * Abs(steps[1])
             > 6 * Abs(steps[1]) * Abs(steps[2])

\* C4: after every timestep a rejected station has its failure counter one
\* higher and its carry-over unchanged; an accepted station has counter zero
\* and carry-over 0.5 x previous carry-over + 0.5 x solution (the solution
\* itself when it had none); the counter is positive exactly for the
\* stations rejected at the last timestep and never exceeds the number of
\* timesteps done.
C4_CounterAndCarryOver ==
  [][ pc = "select" =>
        \A ist \in Stations :
          /\ chi2select'[ist] =>
               /\ nrFail'[ist] = nrFail[ist] + 1
               /\ prevsol'[ist] = prevsol[ist]
               /\ initprevsol'[ist] = initprevsol[ist]
          /\ ~chi2select'[ist] =>
               /\ nrFail'[ist] = 0
               /\ initprevsol'[ist]
               /\ 2 * prevsol'[ist][1] =
                    (IF initprevsol[ist] THEN prevsol[ist][1] ELSE sol[ist][1])
                    + sol[ist][1]
               /\ 2 * prevsol'[ist][2] =
                    (IF initprevsol[ist] THEN prevsol[ist][2] ELSE sol[ist][2])
                    + sol[ist][2]
          /\ (nrFail'[ist] > 0) <=> chi2select'[ist]
          /\ nrFail'[ist] <= itm' ]_vars

\* a station rejected twice in a row next to an accepted one whose carry-over
\* is a true mean of two different solutions
C4_Witness ==
  /\ Stepped
  /\ \E i, j \in Stations :
       /\ nrFail[i] = 2 /\ chi2select[i]
       /\ ~chi2select[j] /\ nrFail[j] = 0
       /\ prevsol[j] # sol[j]

\* C5: for a station with carry-over in a data gap (fewer than half of the
\* channels valid at this timestep and at the one before), the windows
\* computed for it do not shrink from one timestep of the gap to the next;
\* the first acceptance sets the counter to zero, and with a zero counter the
\* windows computed for it are 1.
C5_GapWindows ==
  [][ /\ pc = "init" =>
           \A ist \in Stations :
             /\ ( /\ initprevsol[ist] /\ itm > 0
                  /\ 2 * count[ist] < nF
                  /\ tecarray[ist] = (-10) * Scale
                  /\ ndtec[ist] > 0 ) =>
                     /\ ndtec'[ist] >= ndtec[ist]
                     /\ ndt'[ist] >= ndt[ist]
             /\ (initprevsol[ist] /\ itm > 0 /\ nrFail[ist] = 0) =>
                     (ndtec'[ist] = 1 /\ ndt'[ist] = 1)
      /\ pc = "select" =>
           \A ist \in Stations :
             (initprevsol[ist] /\ nrFail[ist] > 0 /\ ~chi2select'[ist]) =>
                nrFail'[ist] = 0 ]_vars

\* station 1 has a carry-over and is in the third timestep of a gap (no data
\* now, sentinel written at the timestep before): its window has grown to 3
C5_Witness ==
  /\ pc = "fit"
  /\ initprevsol[1] /\ nrFail[1] = 2
  /\ 2 * count[1] < nF
  /\ tecarray[1] = (-10) * Scale
  /\ ndtec[1] = 3 /\ ndt[1] = 3

\* C7: a station with fewer than half of its channels valid at a timestep
\* gets no lattice search and no least squares fit; its parameters are set
\* to -10 (TEC below -5) and it is counted as failed (counter plus one,
\* succes false).
C7_TooFewChannels ==
  [][ /\ pc = "init" =>
           \A ist \in Stations :
             2 * count[ist] < nF =>
               (~searched'[ist] /\ count'[ist] = count[ist])
      /\ pc = "fit" =>
           \A ist \in Stations :
             2 * count[ist] < nF =>
               /\ ~fitted'[ist]
               /\ sol'[ist] = << (-10) * Scale, (-10) * Scale >>
               /\ sol'[ist][1] < (-5) * Scale
      /\ pc = "select" =>
           \A ist \in Stations :
             ~fitted[ist] =>
               /\ chi2select'[ist]
               /\ nrFail'[ist] = nrFail[ist] + 1
               /\ ~succes' ]_vars

\* station 1 lacks data at a timestep where the lattice initialisation ran:
\* it was neither searched nor fitted and holds the sentinel
C7_Witness ==
  /\ pc = "select"
  /\ itm > 0 /\ ~succes
  /\ searched[0]
  /\ 2 * count[1] < nF /\ count[1] > 0
  /\ ~searched[1] /\ ~fitted[1]
  /\ sol[1][1] = (-10) * Scale

\* C8: the lattice search runs only at the first timestep or after a timestep
\* whose success flag is false; after a timestep in which every station was
\* accepted the flag is true, every station has a carry-over and no station
\* is searched at the next timestep.
C8_InitOnlyAfterFailure ==
  /\ (pc = "init" \/ \E ist \in Stations : searched[ist]) =>
       (itm = 0 \/ ~succes)
  /\ succes => \A ist \in Stations :
                 initprevsol[ist] /\ ~searched[ist] /\ nrFail[ist] = 0
  /\ itm > 0 => (succes <=> \A ist \in Stations : ~chi2select[ist])

\* a timestep after an all-accepted one: the fit is reached without search
C8_Witness ==
  /\ pc = "select"
  /\ itm > 0 /\ succes
  /\ \A ist \in Stations : fitted[ist] /\ ~searched[ist]

\* C25: once a station has a carry-over solution its flag stays true at
\* every later step of the run, whatever failures and data gaps follow, and
\* the flag becomes true only in the selection of a timestep that accepts
\* the station.
C25_CarryOverFlagMonotone ==
  [][ \A ist \in Stations :
        /\ initprevsol[ist] => initprevsol'[ist]
        /\ (~initprevsol[ist] /\ initprevsol'[ist]) =>
             (pc = "select" /\ ~chi2select'[ist]) ]_vars

\* C25, witness: a station with a carry-over that was rejected at the last
\* timestep is in a data gap at this one and still has its flag, next to a
\* station that has none after two timesteps
C25_Witness ==
  /\ pc = "select"
  /\ itm >= 2
  /\ \E i, j \in Stations :
       /\ initprevsol[i] /\ nrFail[i] >= 1 /\ TooFewChannels(i)
       /\ ~initprevsol[j]

\* ------------------------------------------- prefactor_bandpass.run
\* stations and channels of the amplitude table
BPStations == {0, 1}
BPChans == {0, 1}
BPCells == BPStations \X BPChans
\* median frequencies of a low band, a high band and an upper high band
\* observation, in MHz
MedianFreqs == {50, 150, 220}
\* the numbers of subbands the frequency span is drawn from
SpanLengths == {19, 20}
\* line 407: the smallest frequency span the filtering accepts
MinSubbands == 20

\* line 241: the one band _flag_amplitudes knows
SupportedBand(f) == f < 180 /\ f > 110

\* line 373: weights_arraytmp[flagged] = 0.0
ZeroFlagged(w, one) == [c \in BPCells |-> IF one[c] THEN 0 ELSE w[c]]

\* line 423: weights_arraytmp[:, :, bad_sb, :] = 0.0
ZeroSubbands(w, bad) == [c \in BPCells |-> IF c[2] \in bad THEN 0 ELSE w[c]]

\* the weights of one station, the argument of line 432
StationWeights(w, s) == [ch \in BPChans |-> w[<<s, ch>>]]

\* lines 250-325: what _flag_amplitudes puts for a station it worked on;
\* a fully flagged station is put as it is, of any other station weights
\* are set to zero (lines 308, 313, 318, 323) and none is raised
Flagged(w) ==
  IF \A ch \in BPChans : w[ch] = 0
  THEN {w}
  ELSE {v \in [BPChans -> {0, 1}] : \A ch \in BPChans : v[ch] <= w[ch]}

\* lines 435-436: weights_arraytmp[:, s, :, :] = w
Collected(w, q) ==
  [c \in BPCells |-> IF c[1] \in DOMAIN q THEN q[c[1]][c[2]] ELSE w[c]]

BandpassInit ==
  /\ WindowIdle
  /\ WrapsIdle
  /\ ParserIdle
  /\ LoopIdle
  /\ UnwrapIdle
  /\ DoFitIdle
  /\ InitParIdle
  /\ bppc = "start"
  /\ solType \in {"amplitude", "phase"}
  /\ autoflag \in BOOLEAN
  /\ freqs_median \in MedianFreqs
  /\ len_freqs_new \in SpanLengths
  /\ bad_sblist \in {{}, {1}}
  /\ amplitude_is_one \in
       {[c \in BPCells |-> FALSE], [c \in BPCells |-> c = <<0, 0>>]}
  /\ soltab_weight \in [BPCells -> {0, 1}]
  /\ weights_arraytmp = << >>
  /\ pending = {}
  /\ exited = {}
  /\ outQueue = << >>
  /\ bandpass = << >>
  /\ bpresult = "none"

\* lines 360-373: the type of the table, the arrays read from it
ReadTable ==
  /\ bppc = "start"
  /\ IF solType # "amplitude"
     THEN /\ bppc' = "done"
          /\ bpresult' = "1"
          /\ UNCHANGED weights_arraytmp
     ELSE /\ bppc' = "span"
          /\ weights_arraytmp' = ZeroFlagged(soltab_weight, amplitude_is_one)
          /\ UNCHANGED bpresult
  /\ UNCHANGED << solType, autoflag, freqs_median, len_freqs_new, bad_sblist,
                  amplitude_is_one, soltab_weight, pending, exited, outQueue,
                  bandpass >>
  /\ UNCHANGED << loopVars, unwrapVars, doFitVars, initParVars, windowVars, wrapVars, parserVars >>

\* lines 400-433: the frequency span, the subbands of the user, the
\* stations handed to the workers
CheckSpan ==
  /\ bppc = "span"
  /\ IF len_freqs_new < MinSubbands
     THEN /\ bppc' = "raised"
          /\ bpresult' = "ValueError"
          /\ UNCHANGED << weights_arraytmp, pending >>
     ELSE /\ weights_arraytmp' = ZeroSubbands(weights_arraytmp, bad_sblist)
          /\ bppc' = IF autoflag THEN "flag" ELSE "interpolate"
          /\ pending' = IF autoflag THEN BPStations ELSE {}
          /\ UNCHANGED bpresult
  /\ UNCHANGED << solType, autoflag, freqs_median, len_freqs_new, bad_sblist,
                  amplitude_is_one, soltab_weight, exited, outQueue, bandpass >>
  /\ UNCHANGED << loopVars, unwrapVars, doFitVars, initParVars, windowVars, wrapVars, parserVars >>

\* lines 209-325: a worker runs _flag_amplitudes for station s
FlagAmplitudes(s) ==
  /\ bppc = "flag"
  /\ s \in pending
  /\ pending' = pending \ {s}
  /\ IF ~SupportedBand(freqs_median)
     THEN /\ exited' = exited \cup {s}
          /\ UNCHANGED outQueue
     ELSE /\ \E w \in Flagged(StationWeights(weights_arraytmp, s)) :
               outQueue' = (s :> w) @@ outQueue
          /\ UNCHANGED exited
  /\ UNCHANGED << bppc, solType, autoflag, freqs_median, len_freqs_new,
                  bad_sblist, amplitude_is_one, soltab_weight,
                  weights_arraytmp, bandpass, bpresult >>
  /\ UNCHANGED << loopVars, unwrapVars, doFitVars, initParVars, windowVars, wrapVars, parserVars >>

\* lines 434-436: every worker has put its result, run takes them
Collect ==
  /\ bppc = "flag"
  /\ pending = {}
  /\ exited = {}
  /\ weights_arraytmp' = Collected(weights_arraytmp, outQueue)
  /\ outQueue' = << >>
  /\ bppc' = "interpolate"
  /\ UNCHANGED << solType, autoflag, freqs_median, len_freqs_new, bad_sblist,
                  amplitude_is_one, soltab_weight, pending, exited, bandpass,
                  bpresult >>
  /\ UNCHANGED << loopVars, unwrapVars, doFitVars, initParVars, windowVars, wrapVars, parserVars >>

\* lines 438-503: the soltab 'bandpass' is made, a subband has weight zero
\* where a weight of weights_arraytmp is zero
WriteBandpass ==
  /\ bppc = "interpolate"
  /\ bandpass' = weights_arraytmp
  /\ bpresult' = "0"
  /\ bppc' = "done"
  /\ UNCHANGED << solType, autoflag, freqs_median, len_freqs_new, bad_sblist,
                  amplitude_is_one, soltab_weight, weights_arraytmp, pending,
                  exited, outQueue >>
  /\ UNCHANGED << loopVars, unwrapVars, doFitVars, initParVars, windowVars, wrapVars, parserVars >>

BandpassNext ==
  \/ ReadTable
  \/ CheckSpan
  \/ \E s \in BPStations : FlagAmplitudes(s)
  \/ Collect
  \/ WriteBandpass

SpecBandpass == BandpassInit /\ [][BandpassNext]_vars

\* C15: a frequency span of fewer than 20 subbands or an unsupported band
\* aborts the bandpass run at once: run never returns 0, and no soltab
\* 'bandpass' is written.
C15_ConfigErrorAborts ==
  (solType = "amplitude"
     /\ (len_freqs_new < MinSubbands \/ ~SupportedBand(freqs_median)))
    => (bandpass = << >> /\ bpresult # "0")

\* C28, as claimed: every station task handed to the worker pool puts
\* exactly one (station, weights) result on the output queue, on every path,
\* and what run takes from the queue for a station is the result of the
\* task of that station, in whatever order the workers end.
C28_OneResultPerTask ==
  [][ bppc = "flag" =>
        /\ \A s \in BPStations \ pending' : s \in DOMAIN outQueue'
        /\ bppc' = "interpolate" =>
             \A c \in BPCells : weights_arraytmp'[c] = outQueue[c[1]][c[2]]
    ]_vars

\* the test of the jump correction with the number of fitted parameters
\* as the bound of the summed displacement
JumpTestPerParameter(ist, s) ==
  LET d0 == s[1] - prevsol[ist][1]
      d1 == s[2] - prevsol[ist][2]
  IN  /\ initprevsol[ist]
      /\ 2 * Abs(d1) > Abs(steps[2])
      /\ \/ 4 * Abs(d1) > 3 * Abs(steps[2])
         \/ 2 * Abs(d0 * steps[2] + d1 * steps[1])
              > npar * Abs(steps[1] * steps[2])

\* C18: the solution of a fitted station is the least squares result
\* shifted back by round(clock discrepancy / clock step) steps exactly when
\* the station has a carry-over, the clock differs from it by more than 0.5
\* of a step, and the difference exceeds 0.75 of a step or the absolute
\* summed normalized displacement exceeds 0.5 x the number of fitted
\* parameters; otherwise it is the least squares result itself.
C18_JumpCorrection ==
  [][ pc = "fit" =>
        \A ist \in Stations :
          fitted'[ist] =>
            \E s \in FitVals(ist) :
              sol'[ist] = (IF JumpTestPerParameter(ist, s)
                           THEN JumpFix(ist, s) ELSE s) ]_vars

\* ------------------------------------ windows of a station with carry-over
\* One station of getClockTECFit that has a carry-over, followed from one
\* lattice initialisation to the next: between two of them the station
\* failed (line 310) or passed while another station failed (line 311).

\* the failure counter is followed up to this value
MaxFail == 205

\* stations of every class the program tells apart
WindowStations ==
  { [name |-> "CS001HBA0", CS |-> TRUE,  RS |-> FALSE, LBA |-> FALSE],
    [name |-> "CS001LBA",  CS |-> TRUE,  RS |-> FALSE, LBA |-> TRUE],
    [name |-> "RS106HBA",  CS |-> FALSE, RS |-> TRUE,  LBA |-> FALSE],
    [name |-> "DE601HBA",  CS |-> FALSE, RS |-> FALSE, LBA |-> FALSE] }

\* mutant: the windows grow with the failure counter without a cap
CarryOverWindows_Uncapped(st, fail, third) ==
  [ndtec |-> fail + 1, ndt |-> fail + 1,
   n3rd |-> IF third THEN fail + 1 ELSE 0]

\* lines 254-260; n3rd keeps the 0 of line 217 without fit3rdorder
CarryOverWindows(st, fail, third) ==
  [ndtec |-> Min(fail + 1, 100),
   ndt   |-> IF ~st.CS THEN Min(fail + 1, 200) ELSE Min(fail + 1, 4),
   n3rd  |-> IF third THEN Min(fail + 1, 200) ELSE 0]

WindowInit ==
  /\ LoopIdle
  /\ UnwrapIdle
  /\ DoFitIdle
  /\ InitParIdle
  /\ BandpassIdle
  /\ WrapsIdle
  /\ ParserIdle
  /\ st_name \in WindowStations
  /\ st_fit3rdorder \in BOOLEAN
  /\ st_nrFail = 0
  /\ st_windows = << >>

\* lines 310 and 251-260: the station is rejected, then initialised again
FailAndReinit ==
  /\ st_nrFail < MaxFail
  /\ st_nrFail' = st_nrFail + 1
  /\ st_windows' = CarryOverWindows(st_name, st_nrFail', st_fit3rdorder)
  /\ UNCHANGED << st_name, st_fit3rdorder >>
  /\ UNCHANGED << loopVars, unwrapVars, doFitVars, initParVars, bandpassVars,
                  wrapVars, parserVars >>

\* lines 311 and 251-260: the station is accepted while another one is
\* rejected, so that the next timestep initialises every station again
PassAndReinit ==
  /\ st_nrFail' = 0
  /\ st_windows' = CarryOverWindows(st_name, st_nrFail', st_fit3rdorder)
  /\ UNCHANGED << st_name, st_fit3rdorder >>
  /\ UNCHANGED << loopVars, unwrapVars, doFitVars, initParVars, bandpassVars,
                  wrapVars, parserVars >>

WindowNext == FailAndReinit \/ PassAndReinit

SpecWindows == WindowInit /\ [][WindowNext]_vars

\* C20: the half-widths a station with carry-over is initialised with are
\* min(failure counter + 1, cap), the cap being 100 for TEC, 4 for the
\* clock of a core station, 200 for the clock of any other station and 200
\* for the third-order term; no window decreases when the failure counter
\* does not decrease.
C20_WindowsCapped ==
  [][ LET f == st_nrFail'
          w == st_windows'
      IN  /\ w.ndtec = Min(f + 1, 100)
          /\ w.ndt = Min(f + 1, IF st_name.CS THEN 4 ELSE 200)
          /\ st_fit3rdorder => w.n3rd = Min(f + 1, 200)
          /\ w.ndtec <= 100 /\ w.n3rd <= 200
          /\ w.ndt <= (IF st_name.CS THEN 4 ELSE 200)
          /\ (st_windows # << >> /\ f >= st_nrFail) =>
               /\ w.ndtec >= st_windows.ndtec
               /\ w.ndt >= st_windows.ndt
               /\ w.n3rd >= st_windows.n3rd ]_vars

\* C20, witness: a station that is not a core station has failed more than
\* 200 times in a row, and its three windows stand at their caps
C20_Witness ==
  /\ ~st_name.CS
  /\ st_fit3rdorder
  /\ st_nrFail > 200
  /\ st_windows = [ndtec |-> 100, ndt |-> 200, n3rd |-> 200]

\* ============================================================ correctWraps
\* number of timesteps of the TEC array handed to correctWraps
cw_nT == 4
Times == 0 .. (cw_nT - 1)
\* stations of the array; station 0 is the reference of lines 393-396
ScreenStations == 0 .. 3
\* lines 392-395: longitude and latitude of the stations relative to
\* station 0, in degrees
lons == [i \in ScreenStations |-> << 0, 1, 0, 1 >>[i + 1]]
lats == [i \in ScreenStations |-> << 0, 0, 1, 1 >>[i + 1]]

\* one timestep of tecarray: station 0 and station 2 at 0, a at station 1,
\* b at station 3
TecRow(a, b) ==
  [i \in ScreenStations |-> IF i = 1 THEN a ELSE IF i = 3 THEN b ELSE 0]
\* the timesteps tecarray is made of; in the last one station 3 was not
\* fitted
TecRows ==
  { TecRow(0, 0), TecRow(9, 0), TecRow(0, 7), TecRow(0, 12), TecRow(0, 15),
    TecRow(0, FAILVALUE) }
\* line 391: the wraps correctWrapsFromResiduals found, station 0 at 0
ResidualWraps ==
  { [i \in ScreenStations |-> 0],
    [i \in ScreenStations |-> IF i = 2 THEN -1 ELSE 0] }

RECURSIVE SumOver(_, _)
\* sum of f over the finite set S
SumOver(f, S) ==
  IF S = {} THEN 0
  ELSE LET x == CHOOSE y \in S : TRUE IN f[x] + SumOver(f, S \ {x})

\* line 410: np.round of num / den, den > 0: to the nearest whole number, a half to
\* the even one
RoundHalfEven(num, den) ==
  LET q == (2 * num + den) \div (2 * den)
  IN  IF (2 * num + den) % (2 * den) = 0 /\ q % 2 # 0 THEN q - 1 ELSE q

\* line 389: flags = tecarray < -5
Flagged3(tecs, t, i) == tecs[t][i] < TECSENTINEL

\* line 400: best TEC at the moment, relative to station 0
BestTEC(tecs, w, t, i) ==
  tecs[t][i] - tecs[t][0] + wrapsteps[1] * (w[i] - w[0])

\* line 403, np.dot(lonlat, lonlat.T): its three entries and its determinant
LonLon == SumOver([i \in ScreenStations |-> lons[i] * lons[i]], ScreenStations)
LonLat == SumOver([i \in ScreenStations |-> lons[i] * lats[i]], ScreenStations)
LatLat == SumOver([i \in ScreenStations |-> lats[i] * lats[i]], ScreenStations)
Det == LonLon * LatLat - LonLat * LonLat

\* line 403: np.ma.dot(lonlat, TEC.T) for timestep t, a masked TEC counts
\* as 0; c is lons or lats
Moment(tecs, w, t, c) ==
  SumOver([i \in ScreenStations |->
             IF Flagged3(tecs, t, i) THEN 0 ELSE c[i] * BestTEC(tecs, w, t, i)],
          ScreenStations)

\* line 403: slope of the linear screen of timestep t, times Det
Slope(tecs, w, t) ==
  LET bx == Moment(tecs, w, t, lons)
      by == Moment(tecs, w, t, lats)
  IN  << LatLat * bx - LonLat * by, LonLon * by - LonLat * bx >>

\* TEC - np.ma.dot(lonlat.T, slope).T at (t, i), times Det
ScreenResidual(tecs, w, t, i) ==
  LET sl == Slope(tecs, w, t)
  IN  Det * BestTEC(tecs, w, t, i) - (lons[i] * sl[1] + lats[i] * sl[2])

\* line 405: chi2 of timestep t, times Det^2 * nSt; masked entries are left
\* out of the sum
ScreenChi2(tecs, w) ==
  Array([t \in Times |->
           SumOver(Array([i \in ScreenStations |->
                            IF Flagged3(tecs, t, i) THEN 0
                            ELSE ScreenResidual(tecs, w, t, i)
                                   * ScreenResidual(tecs, w, t, i)]),
                   ScreenStations)])

\* chi2 < np.ma.average(chi2[among]): the timesteps below the average
\* of the timesteps of among
BelowAverage(c, among) ==
  LET total == << Cardinality(among), SumOver(c, among) >> @@ << >>
  IN  { t \in Times : total[1] * c[t] < total[2] }

\* lines 406-407: the selection is made twice
TimeSelection(tecs, w) ==
  LET c == ScreenChi2(tecs, w)
  IN  BelowAverage(c, BelowAverage(c, Times))

\* line 409: the samples of station i the average is taken over
Averaged(tecs, sel, i) == { t \in sel : ~Flagged3(tecs, t, i) }

\* line 409, offsets / (2 pi) of station i as a fraction with a positive
\* denominator: -1 * average(residual) / steps[0]
OffsetTurns(tecs, w, sel, i) ==
  LET over == Averaged(tecs, sel, i)
      total == SumOver(Array([t \in Times |->
                                ScreenResidual(tecs, w, t, i)]), over)
      sign == IF wrapsteps[1] < 0 THEN 1 ELSE -1
  IN  << sign * total, Det * Cardinality(over) * Abs(wrapsteps[1]) >>

\* arguments of correctWraps and the wraps of line 391
WrapsInit ==
  /\ LoopIdle
  /\ UnwrapIdle
  /\ DoFitIdle
  /\ InitParIdle
  /\ BandpassIdle
  /\ WindowIdle
  /\ ParserIdle
  /\ cwpc = "refine"
  /\ cw_tec \in [Times -> TecRows]
  /\ cw_wraps \in ResidualWraps
  /\ cw_offsets = << >>
  /\ cw_remaining = << >>
  /\ cw_select = {}
  /\ nr_iter = 0

\* lines 398-418, one round of the loop and the return that follows the
\* last one.  An average of line 409 taken over no sample is not a number:
\* the run is not followed beyond it.
Refine ==
  /\ cwpc = "refine"
  /\ cw_select' = TimeSelection(cw_tec, cw_wraps)
  /\ IF \E i \in ScreenStations : Averaged(cw_tec, cw_select', i) = {}
     THEN /\ cwpc' = "nooffset"
          /\ UNCHANGED << cw_wraps, cw_offsets, cw_remaining >>
     ELSE /\ cw_offsets' =
               Array([i \in ScreenStations |->
                        OffsetTurns(cw_tec, cw_wraps, cw_select', i)])
          /\ cw_remaining' =
               Array([i \in ScreenStations |->
                        RoundHalfEven(cw_offsets'[i][1], cw_offsets'[i][2])])
          /\ cw_wraps' = [i \in ScreenStations |->
                            cw_wraps[i] + cw_remaining'[i]]
          /\ cwpc' = IF (\A i \in ScreenStations : cw_remaining'[i] = 0)
                        \/ nr_iter + 1 = 2
                     THEN "returned" ELSE "refine"
  /\ nr_iter' = nr_iter + 1
  /\ UNCHANGED << cw_tec, loopVars, unwrapVars, doFitVars, initParVars,
                  bandpassVars, windowVars, parserVars >>

WrapsNext == Refine

SpecWraps == WrapsInit /\ [][WrapsNext]_vars

\* ===================================================== correctWraps claims

\* C26, as claimed: the offsets correctWraps returns hold no whole wrap: for
\* every station |offset| <= pi, every wrap found in the last round made is
\* in the returned wrap count and not in the returned offset as well.
C26_OffsetWithinHalfTurn ==
  cwpc = "returned" =>
    \A i \in ScreenStations :
      2 * Abs(cw_offsets[i][1]) <= cw_offsets[i][2]

\* C27, as claimed: in each round of correctWraps the selection of the
\* timesteps with a chi-square below the average, made twice, keeps at
\* least one timestep when at least one timestep is unflagged, so that the
\* offset of a station is averaged over a set that is not empty.
C27_SelectionNotEmpty ==
  (nr_iter > 0
     /\ \E t \in Times : \E i \in ScreenStations : ~Flagged3(cw_tec, t, i))
    => cw_select # {}

\* ==================================================== parser entry points
\* Python values are written as their literals.  The first argument of
\* run, soltab, is handed over by both parsers and left out here.

\* reweight.py lines 149-150: the parameters of run after soltab, in order,
\* with their defaults
ReweightRun ==
  << << "method", "'uniform'" >>, << "weightVal", "1.0" >>,
     << "nmedian", "3" >>, << "nstddev", "251" >>,
     << "soltabImport", "''" >>, << "flagBad", "False" >>,
     << "ncpu", "0" >> >>

\* prefactor_bandpass.py lines 328-329: the parameters of run after soltab
BandpassRun ==
  << << "chanWidth", "required" >>, << "BadSBList", "''" >>,
     << "autoflag", "False" >>, << "nsigma", "5.0" >>,
     << "max_flagged_fraction", "0.5" >>, << "max_stddev", "0.006" >>,
     << "ncpu", "0" >> >>

\* reweight.py lines 10-12: the options of a reweight step in the parset
ReweightOptions ==
  [ {"weightVal"} -> {"1.0", "0.0"} ]
    \X [ {"soltabImport"} -> {"''", "'sol000'"} ]
    \X [ {"flagBad"} -> {"False", "True"} ]

\* prefactor_bandpass.py lines 10-16: the options of a bandpass step
BandpassOptions ==
  [ {"chanWidth"} -> {"'48kHz'", "'195kHz'"} ]
    \X [ {"BadSBList"} -> {"''", "'1;2'"} ]
    \X [ {"autoFlag"} -> {"False", "True"} ]
    \X [ {"nSigma"} -> {"5.0", "3.0"} ]
    \X [ {"maxFlaggedFraction"} -> {"0.5", "0.3"} ]
    \X [ {"maxStddev"} -> {"0.006", "0.01"} ]
    \X [ {"ncpu"} -> {"0", "4"} ]

RECURSIVE Joined(_, _)
\* the functions of a tuple joined into one
Joined(tuple, k) ==
  IF k = 0 THEN << >> ELSE tuple[k] @@ Joined(tuple, k - 1)

\* a call run(soltab, args...): the positional arguments go to the
\* parameters in the order of the signature, every other parameter has its
\* default
Bind(signature, args) ==
  Array([name \in { signature[k][1] : k \in 1 .. Len(signature) } |->
           LET k == CHOOSE j \in 1 .. Len(signature) : signature[j][1] = name
           IN  IF k <= Len(args) THEN args[k] ELSE signature[k][2]])

\* a step of the parset is handed to the parser of its operation
ParserInit ==
  /\ LoopIdle
  /\ UnwrapIdle
  /\ DoFitIdle
  /\ InitParIdle
  /\ BandpassIdle
  /\ WindowIdle
  /\ WrapsIdle
  /\ pspc = "parse"
  /\ operation \in {"reweight", "prefactor_bandpass"}
  /\ \E o \in (IF operation = "reweight"
               THEN ReweightOptions ELSE BandpassOptions) :
       options = Joined(o, Len(o))
  /\ received = << >>

\* reweight.py lines 9-13: run(soltab, weightVal, soltabImport, flagBad)
ReweightParser ==
  /\ pspc = "parse"
  /\ operation = "reweight"
  /\ received' = Bind(ReweightRun,
                      << options["weightVal"], options["soltabImport"],
                         options["flagBad"] >>)
  /\ pspc' = "run"
  /\ UNCHANGED << operation, options, loopVars, unwrapVars, doFitVars,
                  initParVars, bandpassVars, windowVars, wrapVars >>

\* prefactor_bandpass.py lines 9-17: run(soltab, chanWidth, BadSBList)
BandpassParser ==
  /\ pspc = "parse"
  /\ operation = "prefactor_bandpass"
  /\ received' = Bind(BandpassRun,
                      << options["chanWidth"], options["BadSBList"] >>)
  /\ pspc' = "run"
  /\ UNCHANGED << operation, options, loopVars, unwrapVars, doFitVars,
                  initParVars, bandpassVars, windowVars, wrapVars >>

ParserNext == ReweightParser \/ BandpassParser

SpecParser == ParserInit /\ [][ParserNext]_vars

\* C29, as claimed: the parsers hand every option they read to the
\* parameter of run with the same meaning: weightVal, soltabImport and
\* flagBad of a reweight step, autoFlag, nSigma, maxFlaggedFraction,
\* maxStddev and ncpu of a bandpass step.
C29_OptionsForwarded ==
  pspc = "run" =>
    IF operation = "reweight"
    THEN /\ received["weightVal"] = options["weightVal"]
         /\ received["soltabImport"] = options["soltabImport"]
         /\ received["flagBad"] = options["flagBad"]
    ELSE /\ received["autoflag"] = options["autoFlag"]
         /\ received["nsigma"] = options["nSigma"]
         /\ received["max_flagged_fraction"] = options["maxFlaggedFraction"]
         /\ received["max_stddev"] = options["maxStddev"]
         /\ received["ncpu"] = options["ncpu"]

====
